---- MODULE Spec2Model ----
(***************************************************************************)
(* Model of the fix-application engine of src/autofix.js: the quick-pick   *)
(* menu (showFixesMenu), the preview panels (showFixesPreview,             *)
(* showSingleFixPreview), the batch applier (applyAllFixes) and the        *)
(* single applier (applySingleFix), over a document that is a sequence of  *)
(* characters and is changed only through the host's editor.edit.          *)
(*                                                                         *)
(* Every async function is cut at its awaits: the prompt                   *)
(* (showWarningMessage / showInformationMessage) and editor.edit.  A call  *)
(* occupies one slot of `calls` from its start to its return.              *)
(***************************************************************************)
EXTENDS Integers, Sequences, FiniteSets, TLC

\* ----------------------------------------------------------------- bounds
MaxDocLen == 2      \* longest initial document
MaxAnchorLen == 1   \* longest originalCode
MaxFixLen == 2      \* longest fixedCode
MaxFixes == 2       \* most proposals in one review
MaxLine == 2        \* largest advisory lineStart
MaxCalls == 2       \* most applier calls started in one behaviour
MaxPanels == 1      \* most preview panels created in one behaviour
MaxSlots == 2       \* most applier calls in flight at the same time
MaxApplies == 2     \* most 'apply' messages one preview panel handles
MaxEvents == 3      \* most text change events in one behaviour
MaxTriggers == 1    \* most save, editor, file and refresh events
MaxReviewPanels == 2 \* most review panels created in one behaviour
MaxIssues == 2      \* most issues in one reply of a real-time review
MaxFileSize == 1    \* the setting maxFileSize

\* the open documents: the text of "A" is doc, the text of "B" is not followed
\* and stays empty
Documents == {"A", "B"}

Chars == {"a", "b"}
NL == "\n"

\* ------------------------------------------------------- text primitives
SeqsUpTo(S, n) == UNION {[1..k -> S] : k \in 0..n}

Min(S) == CHOOSE x \in S : \A y \in S : x <= y
Max(S) == CHOOSE x \in S : \A y \in S : x >= y

\* pat occurs in text at 0-based offset i
OccursAt(text, pat, i) ==
    /\ i + Len(pat) <= Len(text)
    /\ \A k \in 1..Len(pat) : text[i + k] = pat[k]

\* a search that returns the last occurrence instead of the first
IndexOfLast(text, pat) ==
    LET occ == {i \in 0..Len(text) : OccursAt(text, pat, i)}
    IN  IF occ = {} THEN -1 ELSE Max(occ)

\* String.prototype.indexOf: smallest offset of an occurrence, -1 if none;
\* the empty string occurs at offset 0 of every text.
IndexOf(text, pat) ==
    LET occ == {i \in 0..Len(text) : OccursAt(text, pat, i)}
    IN  IF occ = {} THEN -1 ELSE Min(occ)

\* the text with the half-open offset range [s, e) replaced by rep
ReplaceRange(text, s, e, rep) ==
    SubSeq(text, 1, s) \o rep \o SubSeq(text, e + 1, Len(text))

\* offsets at which a line starts
LineStarts(text) == {0} \cup {i \in 1..Len(text) : text[i] = NL}
LineCount(text) == Cardinality(LineStarts(text))
LineStartOffset(text, l) ==
    CHOOSE s \in LineStarts(text) :
        Cardinality({t \in LineStarts(text) : t < s}) = l
LineEndOffset(text, l) ==
    IF l + 1 < LineCount(text) THEN LineStartOffset(text, l + 1) - 1
    ELSE Len(text)

\* document.positionAt: offset -> <<line, character>>, both 0-based
PositionAt(text, off) ==
    LET o == IF off < 0 THEN 0 ELSE IF off > Len(text) THEN Len(text) ELSE off
        before == {s \in LineStarts(text) : s <= o}
    IN  <<Cardinality(before) - 1, o - Max(before)>>

\* the host's offset of a position, after validatePosition: a line past the
\* last one becomes the end of the document, a character past the end of its
\* line becomes the end of that line
OffsetAt(text, pos) ==
    IF pos[1] >= LineCount(text) THEN Len(text)
    ELSE LET s == LineStartOffset(text, pos[1])
             e == LineEndOffset(text, pos[1])
         IN  IF s + pos[2] > e THEN e ELSE s + pos[2]

PosBefore(p, q) == p[1] < q[1] \/ (p[1] = q[1] /\ p[2] < q[2])

\* new vscode.Range(a, b): the two positions in document order
MkRange(a, b) == IF PosBefore(b, a) THEN <<b, a>> ELSE <<a, b>>

\* ------------------------------------------------------------- proposals
\* class SuggestedFix, without the display-only fields
Fix(id, originalCode, fixedCode, lineStart, lineEnd) ==
    [id |-> id, originalCode |-> originalCode, fixedCode |-> fixedCode,
     lineStart |-> lineStart, lineEnd |-> lineEnd]

\* [...fixes].sort((a, b) => b.lineStart - a.lineStart): Array.prototype.sort
\* is stable, so proposals with equal lineStart keep their input order
RECURSIVE InsertDesc(_, _)
InsertDesc(sorted, f) ==
    IF sorted = <<>> THEN <<f>>
    ELSE IF Head(sorted).lineStart >= f.lineStart
         THEN <<Head(sorted)>> \o InsertDesc(Tail(sorted), f)
         ELSE <<f>> \o sorted

\* the proposals in the order the caller passed them
KeepOrder(fs) == fs

RECURSIVE SortDesc(_)
SortDesc(fs) ==
    IF fs = <<>> THEN <<>>
    ELSE InsertDesc(SortDesc(SubSeq(fs, 1, Len(fs) - 1)), fs[Len(fs)])

\* the overlap test of the batch loop against one recorded range
RangeOverlaps(startOffset, endOffset, range) ==
    \/ (startOffset >= range.start /\ startOffset < range.end)
    \/ (endOffset > range.start /\ endOffset <= range.end)
    \/ (startOffset <= range.start /\ endOffset >= range.end)

Overlaps(startOffset, endOffset, modifiedRanges) ==
    \E n \in 1..Len(modifiedRanges) :
        RangeOverlaps(startOffset, endOffset, modifiedRanges[n])

\* fixes.find(f => f.id === fixId): index of the first proposal with that id,
\* 0 when there is none
FindById(fs, fixId) ==
    LET hit == {n \in 1..Len(fs) : fs[n].id = fixId}
    IN  IF hit = {} THEN 0 ELSE Min(hit)

\* ------------------------------------------------------------------ state
VARIABLES
    doc,      \* editor.document.getText(), a sequence of characters
    fixes,    \* the proposals returned by analyzeAndGetFixes
    menu,     \* the quick pick of showFixesMenu: "open" or "closed"
    panels,   \* the preview panels created so far, in creation order
    calls,    \* the applier calls in flight, one record per slot
    ncalls,   \* number of applier calls started so far
    realTime, \* isRealTimeReviewEnabled, realTimeReviewTimer and the timers set
    webviews  \* reviewPanel and the review panels created by the command

vars == <<doc, fixes, menu, panels, calls, ncalls, realTime, webviews>>

Slots == 1..MaxSlots

NoRange == <<<<0, 0>>, <<0, 0>>>>

\* a slot in which no call runs
IdleCall ==
    [kind |-> "none", pc |-> "idle", origin |-> "none", panel |-> 0,
     fixes |-> <<>>, idx |-> 0,
     appliedCount |-> 0, failedCount |-> 0, skippedCount |-> 0,
     modifiedRanges |-> <<>>,
     startOffset |-> 0, endOffset |-> 0,
     range |-> NoRange, text |-> <<>>, stale |-> FALSE,
     path |-> "none", confirm |-> "none", result |-> "none",
     \* history of the call, read by the properties only
     doc0 |-> <<>>, docEnd |-> <<>>, rerun |-> FALSE, outcome |-> <<>>,
     edits |-> 0, msgs |-> <<>>,
     \* the text and the recorded ranges each iteration of the batch saw
     texts |-> <<>>, trackers |-> <<>>,
     \* the editor.edit requests of a preview panel the host has not answered
     pending |-> <<>>]

HostOutcomes == {"ok", "rejected", "threw"}

\* let realTimeReviewTimer = null; let isRealTimeReviewEnabled = false: the
\* module before activate has run.  listening: the change listener was
\* registered; timeouts: the setTimeout callbacks not yet run or cleared;
\* nextId: setTimeout calls so far.  lastChange, fired, reviews and events are
\* history: the last change event and whether the flag was set when it came,
\* whether a timer callback ran since, the documents the callbacks reviewed,
\* and the number of change events.  activeEditor is
\* vscode.window.activeTextEditor, triggers counts the other events that can
\* start a review.  started: performRealTimeReview calls so far; inflight: the
\* calls that await ai.chat; produced, lastChat and overlapped are history:
\* the calls that set the entry of their document, the last call of each
\* document that reached ai.chat, and whether two calls of a document were in
\* flight together
\* diagnosticCollection for the uri of the document before any set: review is
\* the performRealTimeReview call that set the entry, text the text it
\* reviewed
NoDiagnostics == [review |-> 0, text |-> <<>>, set |-> "none", items |-> <<>>]

NoRealTime ==
    [isRealTimeReviewEnabled |-> FALSE, listening |-> FALSE,
     realTimeReviewTimer |-> 0, timeouts |-> {}, nextId |-> 0,
     lastChange |-> [document |-> "none", enabled |-> FALSE],
     fired |-> FALSE, reviews |-> <<>>, events |-> 0,
     activeEditor |-> "none", currentDocument |-> "none", triggers |-> 0,
     started |-> 0, inflight |-> {}, produced |-> {},
     lastChat |-> [d \in Documents |-> 0],
     overlapped |-> [d \in Documents |-> FALSE],
     diagnostics |-> [d \in Documents |-> NoDiagnostics]]

\* let reviewPanel = null.  open: the review panels created and not disposed;
\* created: createWebviewPanel calls so far
\* handled: the panels whose onDidDispose handler was registered
NoWebviews == [reviewPanel |-> 0, open |-> {}, handled |-> {}, created |-> 0]

Docs == SeqsUpTo(Chars, MaxDocLen)

Proposals ==
    {Fix(0, o, f, l, l) :
        o \in SeqsUpTo(Chars, MaxAnchorLen),
        f \in SeqsUpTo(Chars, MaxFixLen),
        l \in 1..MaxLine}

\* the service's proposals; ids are filled in as in analyzeAndGetFixes
FixLists ==
    {[n \in 1..Len(fs) |-> [fs[n] EXCEPT !.id = n]] :
        fs \in UNION {[1..k -> Proposals] : k \in 1..MaxFixes}}

TypeOK ==
    /\ doc \in Seq(Chars \cup {NL})
    /\ menu \in {"open", "closed"}
    /\ Len(panels) <= MaxPanels
    /\ ncalls \in 0..MaxCalls
    /\ \A c \in Slots :
           calls[c].pc \in {"idle", "confirm", "loop", "edit", "done", "input",
                            "generating", "preview", "disposed"}

Init ==
    /\ doc \in Docs
    /\ fixes \in FixLists
    /\ menu = "open"
    /\ panels = <<>>
    /\ calls = [c \in Slots |-> IdleCall]
    /\ ncalls = 0
    /\ realTime = NoRealTime
    /\ webviews = NoWebviews

\* ------------------------------------------------------- starting a call
CanStart(c) == calls[c].pc = "idle" /\ ncalls < MaxCalls

\* applyAllFixes(editor, fixes), up to the await of its confirmation prompt
StartApplyAll(origin, panel) ==
    [IdleCall EXCEPT !.kind = "batch", !.pc = "confirm",
                     !.origin = origin, !.panel = panel, !.doc0 = doc]

\* a line range that ends at the start of line lineEnd
LineRangeShort(fix) ==
    MkRange(<<Max({0, fix.lineStart - 1}), 0>>, <<Max({0, fix.lineEnd - 1}), 0>>)

\* the range of the line fallback: new Position(Math.max(0, lineStart - 1), 0)
\* to new Position(lineEnd, 0)
LineRange(fix) ==
    MkRange(<<Max({0, fix.lineStart - 1}), 0>>, <<fix.lineEnd, 0>>)

\* new vscode.Position(line, character) raises on a negative line
PositionRaises(line) == line < 0

\* applySingleFix(editor, fix), up to the await of its prompt: the anchor is
\* searched and the range is built before the user is asked; when a position
\* cannot be built the call ends with the exception
StartSingle(fix, origin, panel) ==
    LET originalIndex == IndexOf(doc, fix.originalCode)
        lineRange == LineRange(fix)
        foundRange == MkRange(PositionAt(doc, originalIndex),
                              PositionAt(doc, originalIndex + Len(fix.originalCode)))
    IN  [IdleCall EXCEPT !.kind = "single",
                         !.origin = origin, !.panel = panel,
                         !.fixes = <<fix>>, !.idx = 1,
                         !.pc = IF originalIndex = -1 /\ PositionRaises(fix.lineEnd)
                                THEN "done" ELSE "confirm",
                         !.result = IF originalIndex = -1 /\ PositionRaises(fix.lineEnd)
                                    THEN "threw" ELSE "none",
                         !.path = IF originalIndex = -1 THEN "fallback" ELSE "found",
                         !.range = IF originalIndex = -1 THEN lineRange ELSE foundRange,
                         !.text = IF originalIndex = -1 THEN fix.fixedCode \o <<NL>>
                                  ELSE fix.fixedCode,
                         !.doc0 = doc]

\* createWebviewPanel of showFixesPreview / showSingleFixPreview
NewPanel(kind, fix) == [kind |-> kind, fix |-> fix, open |-> TRUE]

\* ---------------------------------------------------------- showFixesMenu
\* the quick pick is dismissed: if (!selection) return
MenuDismiss ==
    /\ menu = "open"
    /\ menu' = "closed"
    /\ UNCHANGED <<doc, fixes, panels, calls, ncalls, realTime, webviews>>

\* selection.applyAll
MenuApplyAll(c) ==
    /\ menu = "open"
    /\ CanStart(c)
    /\ menu' = "closed"
    /\ calls' = [calls EXCEPT ![c] = StartApplyAll("menu", 0)]
    /\ ncalls' = ncalls + 1
    /\ UNCHANGED <<doc, fixes, panels, realTime, webviews>>

\* selection.preview
MenuPreview ==
    /\ menu = "open"
    /\ Len(panels) < MaxPanels
    /\ menu' = "closed"
    /\ panels' = Append(panels, NewPanel("fixes", 0))
    /\ UNCHANGED <<doc, fixes, calls, ncalls, realTime, webviews>>

\* selection.fix
MenuFix(c, n) ==
    /\ menu = "open"
    /\ CanStart(c)
    /\ n \in 1..Len(fixes)
    /\ menu' = "closed"
    /\ calls' = [calls EXCEPT ![c] = StartSingle(fixes[n], "menu", 0)]
    /\ ncalls' = ncalls + 1
    /\ UNCHANGED <<doc, fixes, panels, realTime, webviews>>

\* ------------------------------------------------- preview panel messages
\* showFixesPreview, message applyAll: applyAllFixes, then panel.dispose()
PanelApplyAll(c, p) ==
    /\ p \in 1..Len(panels)
    /\ panels[p].open /\ panels[p].kind = "fixes"
    /\ CanStart(c)
    /\ calls' = [calls EXCEPT ![c] = StartApplyAll("panel", p)]
    /\ ncalls' = ncalls + 1
    /\ UNCHANGED <<doc, fixes, menu, panels, realTime, webviews>>

\* showFixesPreview, message applyFix: the proposal is looked up by id
PanelApplyFix(c, p, fixId) ==
    /\ p \in 1..Len(panels)
    /\ panels[p].open /\ panels[p].kind = "fixes"
    /\ CanStart(c)
    /\ FindById(fixes, fixId) # 0
    /\ calls' = [calls EXCEPT ![c] =
                    StartSingle(fixes[FindById(fixes, fixId)], "panel", 0)]
    /\ ncalls' = ncalls + 1
    /\ UNCHANGED <<doc, fixes, menu, panels, realTime, webviews>>

\* showSingleFixPreview, message applyFix: applySingleFix, then panel.dispose()
SinglePanelApplyFix(c, p) ==
    /\ p \in 1..Len(panels)
    /\ panels[p].open /\ panels[p].kind = "single"
    /\ CanStart(c)
    /\ calls' = [calls EXCEPT ![c] = StartSingle(panels[p].fix, "panel", p)]
    /\ ncalls' = ncalls + 1
    /\ UNCHANGED <<doc, fixes, menu, panels, realTime, webviews>>

\* ---------------------------------------------------------- applyAllFixes
BatchAnswers == {"Yes, Apply All", "Preview First", "Cancel", "undefined"}

\* a decision that forgets the dismissed prompt
BatchDecisionNoDismiss(confirm) ==
    IF confirm = "Cancel" THEN "return"
    ELSE IF confirm = "Preview First" THEN "preview"
    ELSE "apply"

\* what applyAllFixes does with the answer of its prompt ("undefined" is a
\* dismissed prompt)
BatchDecision(confirm) ==
    IF confirm = "Cancel" \/ confirm = "undefined" THEN "return"
    ELSE IF confirm = "Preview First" THEN "preview"
    ELSE "apply"

\* a sort that reorders the array it is given
SortedInPlace(fs) == SortDesc(fs)

\* the caller's array after [...fixes].sort(...): the copy is sorted, the
\* array itself is left as it was
CallerArray(fs) == fs

\* a tracker that starts with the spans the other calls have recorded
TrackerOfOthers(cs, c) ==
    IF \E o \in DOMAIN cs : o # c /\ cs[o].modifiedRanges # <<>>
    THEN cs[CHOOSE o \in DOMAIN cs : o # c /\ cs[o].modifiedRanges # <<>>].modifiedRanges
    ELSE <<>>

\* const modifiedRanges = []: a local of the call, whatever the other calls
\* cs hold
NewTracker(cs, c) == <<>>

\* a resolution that goes on to an edit when the anchor is absent
BatchResolveFallback(text, fix, modifiedRanges) ==
    LET originalIndex == IndexOf(text, fix.originalCode)
    IN  IF originalIndex # -1
           /\ Overlaps(originalIndex, originalIndex + Len(fix.originalCode),
                       modifiedRanges)
        THEN "skipped"
        ELSE "edit"

\* what the loop body does with one proposal before any await: the anchor is
\* searched in the current text, then its offsets are tested against the
\* recorded ranges
BatchResolve(text, fix, modifiedRanges) ==
    LET originalIndex == IndexOf(text, fix.originalCode)
    IN  IF originalIndex = -1 THEN "notFound"
        ELSE IF Overlaps(originalIndex, originalIndex + Len(fix.originalCode),
                         modifiedRanges)
             THEN "skipped"
             ELSE "edit"

\* an iteration that resolves the proposal in the text the batch started on
BatchBeforeEditFrozen(k, text) ==
    LET fix == k.fixes[k.idx]
        originalIndex == IndexOf(k.doc0, fix.originalCode)
        r == BatchResolve(k.doc0, fix, k.modifiedRanges)
    IN  IF r = "notFound"
        THEN [k EXCEPT !.failedCount = @ + 1, !.idx = @ + 1,
                       !.outcome = Append(@, "notFound"),
                       !.texts = Append(@, text),
                       !.trackers = Append(@, k.modifiedRanges)]
        ELSE IF r = "skipped"
        THEN [k EXCEPT !.skippedCount = @ + 1, !.idx = @ + 1,
                       !.outcome = Append(@, "skipped"),
                       !.texts = Append(@, text),
                       !.trackers = Append(@, k.modifiedRanges)]
        ELSE [k EXCEPT !.pc = "edit",
                       !.startOffset = originalIndex,
                       !.endOffset = originalIndex + Len(fix.originalCode),
                       !.range = MkRange(PositionAt(k.doc0, originalIndex),
                                         PositionAt(k.doc0, originalIndex
                                                            + Len(fix.originalCode))),
                       !.text = fix.fixedCode,
                       !.stale = FALSE,
                       !.edits = @ + 1,
                       !.texts = Append(@, text),
                       !.trackers = Append(@, k.modifiedRanges)]

\* the record of a batch after one iteration of the for loop has run up to
\* `continue` or to the await of editor.edit, on the document text
BatchBeforeEdit(k, text) ==
    LET fix == k.fixes[k.idx]
        originalIndex == IndexOf(text, fix.originalCode)
        r == BatchResolve(text, fix, k.modifiedRanges)
    IN  IF r = "notFound"
        THEN [k EXCEPT !.failedCount = @ + 1, !.idx = @ + 1,
                       !.outcome = Append(@, "notFound"),
                       !.texts = Append(@, text),
                       !.trackers = Append(@, k.modifiedRanges)]
        ELSE IF r = "skipped"
        THEN [k EXCEPT !.skippedCount = @ + 1, !.idx = @ + 1,
                       !.outcome = Append(@, "skipped"),
                       !.texts = Append(@, text),
                       !.trackers = Append(@, k.modifiedRanges)]
        ELSE [k EXCEPT !.pc = "edit",
                       !.startOffset = originalIndex,
                       !.endOffset = originalIndex + Len(fix.originalCode),
                       !.range = MkRange(PositionAt(text, originalIndex),
                                         PositionAt(text, originalIndex
                                                          + Len(fix.originalCode))),
                       !.text = fix.fixedCode,
                       !.stale = FALSE,
                       !.edits = @ + 1,
                       !.texts = Append(@, text),
                       !.trackers = Append(@, k.modifiedRanges)]

\* a catch around the whole loop: an exception ends the loop
AfterCatchAbort(idx, n) == n + 1

\* where the loop goes after an exception in its body: the catch is inside
\* the loop, so the next proposal is processed
AfterCatch(idx, n) == idx + 1

\* the document after the host has applied a replace of range by text
HostApply(text, range, rep) ==
    ReplaceRange(text, OffsetAt(text, range[1]), OffsetAt(text, range[2]), rep)

\* a batch that counts nothing for a proposal whose edit the host rejected
BatchAfterEditDropFailed(k, out) ==
    IF out = "ok"
    THEN [k EXCEPT !.pc = "loop", !.idx = @ + 1,
                   !.appliedCount = @ + 1,
                   !.modifiedRanges =
                       Append(@, [start |-> k.startOffset, end |-> k.endOffset]),
                   !.outcome = Append(@, "applied")]
    ELSE IF out = "rejected"
    THEN [k EXCEPT !.pc = "loop", !.idx = @ + 1,
                   !.outcome = Append(@, "failed")]
    ELSE [k EXCEPT !.pc = "loop", !.idx = AfterCatch(@, Len(k.fixes)),
                   !.failedCount = @ + 1,
                   !.outcome = Append(@, "threw")]

\* a batch that goes back to a proposal whose edit the host rejected
BatchAfterEditRetry(k, out) ==
    IF out = "ok"
    THEN [k EXCEPT !.pc = "loop", !.idx = @ + 1,
                   !.appliedCount = @ + 1,
                   !.modifiedRanges =
                       Append(@, [start |-> k.startOffset, end |-> k.endOffset]),
                   !.outcome = Append(@, "applied")]
    ELSE IF out = "rejected"
    THEN [k EXCEPT !.pc = "loop"]
    ELSE [k EXCEPT !.pc = "loop", !.idx = AfterCatch(@, Len(k.fixes)),
                   !.failedCount = @ + 1,
                   !.outcome = Append(@, "threw")]

\* a batch that records the requested span also when the host rejects the edit
BatchAfterEditCommitAlways(k, out) ==
    IF out = "ok"
    THEN [k EXCEPT !.pc = "loop", !.idx = @ + 1,
                   !.appliedCount = @ + 1,
                   !.modifiedRanges =
                       Append(@, [start |-> k.startOffset, end |-> k.endOffset]),
                   !.outcome = Append(@, "applied")]
    ELSE IF out = "rejected"
    THEN [k EXCEPT !.pc = "loop", !.idx = @ + 1,
                   !.failedCount = @ + 1,
                   !.modifiedRanges =
                       Append(@, [start |-> k.startOffset, end |-> k.endOffset]),
                   !.outcome = Append(@, "failed")]
    ELSE [k EXCEPT !.pc = "loop", !.idx = AfterCatch(@, Len(k.fixes)),
                   !.failedCount = @ + 1,
                   !.outcome = Append(@, "threw")]

\* the record of a batch after editor.edit has completed
BatchAfterEdit(k, out) ==
    IF out = "ok"
    THEN [k EXCEPT !.pc = "loop", !.idx = @ + 1,
                   !.appliedCount = @ + 1,
                   !.modifiedRanges =
                       Append(@, [start |-> k.startOffset, end |-> k.endOffset]),
                   !.outcome = Append(@, "applied")]
    ELSE IF out = "rejected"
    THEN [k EXCEPT !.pc = "loop", !.idx = @ + 1,
                   !.failedCount = @ + 1,
                   !.outcome = Append(@, "failed")]
    ELSE [k EXCEPT !.pc = "loop", !.idx = AfterCatch(@, Len(k.fixes)),
                   !.failedCount = @ + 1,
                   !.outcome = Append(@, "threw")]

\* a summary that is shown only when something was applied
SummaryMsgsIfApplied(k) ==
    IF k.appliedCount > 0
    THEN Append(k.msgs, [kind |-> "summary", applied |-> k.appliedCount,
                         failed |-> k.failedCount, skipped |-> k.skippedCount])
    ELSE k.msgs

\* the messages of the call after the showInformationMessage that follows the
\* loop: one summary with the three counters
SummaryMsgs(k) ==
    Append(k.msgs, [kind |-> "summary", applied |-> k.appliedCount,
                    failed |-> k.failedCount, skipped |-> k.skippedCount])

\* the loop is over: the summary message is shown and the call returns
BatchFinish(k, text) ==
    [k EXCEPT !.pc = "done", !.result = "summary", !.docEnd = text,
              !.msgs = SummaryMsgs(k)]

\* the for loop from the proposal k.idx on, as far as it runs without
\* suspending: iterations that end in `continue` follow each other at once,
\* and the run ends at the await of editor.edit or, after the last proposal,
\* with the summary.  (The record of the next iteration is bound as the
\* element of a one-element set, so that it is computed once.)
RECURSIVE BatchRun(_, _)
BatchRun(k, text) ==
    IF k.pc # "loop" THEN k
    ELSE IF k.idx > Len(k.fixes) THEN BatchFinish(k, text)
    ELSE CHOOSE r \in {BatchRun(n, text) : n \in {BatchBeforeEdit(k, text)}} : TRUE

\* the panels after the handler that awaited call k has run on: a handler of
\* a preview panel that awaited the call disposes its panel when the call
\* has returned, unless the call raised
PanelsAfter(ps, k) ==
    IF k.pc = "done" /\ k.panel # 0 /\ k.result # "threw"
    THEN [ps EXCEPT ![k.panel].open = FALSE]
    ELSE ps

\* the prompt of applyAllFixes is answered
BatchAnswer(c, confirm) ==
    /\ calls[c].kind = "batch" /\ calls[c].pc = "confirm"
    /\ confirm \in BatchAnswers
    /\ LET k == calls[c]
           d == BatchDecision(confirm)
           after ==
             IF d = "apply"
             THEN BatchRun([k EXCEPT !.confirm = confirm, !.pc = "loop",
                                     !.fixes = SortDesc(fixes), !.idx = 1,
                                     !.doc0 = doc,
                                     !.modifiedRanges = NewTracker(calls, c),
                                     !.rerun = \E o \in Slots :
                                                   /\ o # c
                                                   /\ calls[o].kind = "batch"
                                                   /\ calls[o].result = "summary"
                                                   /\ calls[o].appliedCount > 0
                                                   /\ calls[o].docEnd = doc],
                           doc)
             ELSE [k EXCEPT !.confirm = confirm, !.pc = "done",
                            !.result = IF d = "preview" THEN "preview"
                                       ELSE "cancelled"]
       IN  /\ d = "preview" => Len(panels) < MaxPanels
           /\ panels' = PanelsAfter(IF d = "preview"
                                    THEN Append(panels, NewPanel("fixes", 0))
                                    ELSE panels, after)
           /\ calls' = [calls EXCEPT ![c] = after]
    /\ fixes' = IF BatchDecision(confirm) = "apply" THEN CallerArray(fixes)
                ELSE fixes
    /\ UNCHANGED <<doc, menu, ncalls, realTime, webviews>>

\* --------------------------------------------------------- applySingleFix
FoundAnswers == {"Yes, Apply", "Preview First", "Cancel", "undefined"}
FallbackAnswers == {"Yes, Apply", "No, Cancel", "undefined"}

\* a decision that takes every answer but the refusal as a yes on the
\* line-range path
SingleDecisionLoose(path, confirm) ==
    IF path = "fallback"
    THEN IF confirm = "No, Cancel" THEN "return" ELSE "apply"
    ELSE IF confirm = "Yes, Apply" THEN "apply"
         ELSE IF confirm = "Preview First" THEN "preview"
         ELSE "return"

\* what applySingleFix does with the answer of its prompt, on the path where
\* the anchor was found ("found") and on the line-range path ("fallback")
SingleDecision(path, confirm) ==
    IF path = "fallback"
    THEN IF confirm # "Yes, Apply" THEN "return" ELSE "apply"
    ELSE IF confirm = "Yes, Apply" THEN "apply"
         ELSE IF confirm = "Preview First" THEN "preview"
         ELSE "return"

\* the prompt of applySingleFix is answered
SingleAnswer(c, confirm) ==
    /\ calls[c].kind = "single" /\ calls[c].pc = "confirm"
    /\ confirm \in (IF calls[c].path = "fallback" THEN FallbackAnswers
                    ELSE FoundAnswers)
    /\ LET k == calls[c]
           d == SingleDecision(k.path, confirm)
           after ==
             IF d = "apply"
             THEN [k EXCEPT !.confirm = confirm, !.pc = "edit",
                            !.stale = FALSE, !.edits = @ + 1]
             ELSE [k EXCEPT !.confirm = confirm, !.pc = "done",
                            !.result = IF d = "preview" THEN "preview"
                                       ELSE "declined"]
       IN  /\ d = "preview" => Len(panels) < MaxPanels
           /\ panels' = PanelsAfter(IF d = "preview"
                                    THEN Append(panels, NewPanel("single", k.fixes[1]))
                                    ELSE panels, after)
           /\ calls' = [calls EXCEPT ![c] = after]
    /\ UNCHANGED <<doc, fixes, menu, ncalls, realTime, webviews>>

\* the record of applySingleFix after editor.edit has completed: the value
\* the edit resolves to is not read; an exception leaves the function
SingleAfterEdit(k, out) ==
    IF out = "threw"
    THEN [k EXCEPT !.pc = "done", !.result = "threw"]
    ELSE [k EXCEPT !.pc = "done", !.result = "edited",
                   !.outcome = Append(@, IF out = "ok" THEN "applied" ELSE "failed"),
                   !.msgs = IF k.path = "found"
                            THEN Append(@, [kind |-> "fixApplied", applied |-> 0,
                                            failed |-> 0, skipped |-> 0])
                            ELSE @]

\* ------------------------------------------------------- editor.edit, host
\* a call that puts back the text it started on when its edit is not applied
DocAfterEditRollback(text, k, out) ==
    IF out = "ok" THEN HostApply(text, k.range, k.text) ELSE k.doc0

\* the document after the editor.edit of call record k has completed: only an
\* applied edit changes it, and the caller undoes nothing
DocAfterEdit(text, k, out) ==
    IF out = "ok" THEN HostApply(text, k.range, k.text) ELSE text

\* the awaited editor.edit of call c completes: the host applies the replace
\* and resolves to true, or leaves the document alone and resolves to false,
\* or the call raises.  The host applies an edit only to the document version
\* it was requested on, so an applied edit makes every other outstanding
\* request stale, and a stale request is never applied.  The call runs on in
\* the same turn: a batch to its next edit request or to its summary, and the
\* handler that awaited the call to its end.  text is the document after the
\* edit, resumed the call as it continues after the await, after the call at
\* the end of the turn.
HostEditDone(c, out) ==
    /\ calls[c].kind \in {"batch", "single"} /\ calls[c].pc = "edit"
    /\ out \in HostOutcomes
    /\ out = "ok" => ~calls[c].stale
    /\ \E text \in {DocAfterEdit(doc, calls[c], out)} :
       \E resumed \in {IF calls[c].kind = "batch"
                       THEN BatchAfterEdit(calls[c], out)
                       ELSE SingleAfterEdit(calls[c], out)} :
       \E after \in {IF calls[c].kind = "batch"
                     THEN BatchRun(resumed, text) ELSE resumed} :
           /\ doc' = text
           /\ calls' = [o \in Slots |->
                           IF o = c THEN after
                           ELSE IF out = "ok" /\ calls[o].pc = "edit"
                                THEN [calls[o] EXCEPT !.stale = TRUE]
                                ELSE calls[o]]
           /\ panels' = PanelsAfter(panels, after)
    /\ UNCHANGED <<fixes, menu, ncalls, realTime, webviews>>

\* the record of a call that has ended is dropped; the slot can hold the
\* next call
Return(c) ==
    /\ calls[c].pc = "done"
    /\ calls' = [calls EXCEPT ![c] = IdleCall]
    /\ UNCHANGED <<doc, fixes, menu, panels, ncalls, realTime, webviews>>

\* ---------------------------------------------------------- specification
Step(c) ==
    \/ MenuApplyAll(c)
    \/ \E n \in 1..MaxFixes : MenuFix(c, n)
    \/ \E p \in 1..MaxPanels : PanelApplyAll(c, p)
    \/ \E p \in 1..MaxPanels, fixId \in 1..MaxFixes : PanelApplyFix(c, p, fixId)
    \/ \E p \in 1..MaxPanels : SinglePanelApplyFix(c, p)
    \/ \E confirm \in BatchAnswers : BatchAnswer(c, confirm)
    \/ \E confirm \in FoundAnswers \cup FallbackAnswers : SingleAnswer(c, confirm)
    \/ \E out \in HostOutcomes : HostEditDone(c, out)
    \/ Return(c)

\* one handler at a time: every call returns before the next one starts
Next ==
    \/ MenuDismiss
    \/ MenuPreview
    \/ Step(1)

Spec == Init /\ [][Next]_vars

\* interleaved handlers: a second call may start while the first one is
\* suspended at a prompt or at editor.edit
ConcFixLists == {fs \in FixLists : Len(fs) = 1 /\ fs[1].lineStart = 1}

InitConc ==
    /\ doc \in Docs
    /\ fixes \in ConcFixLists
    /\ menu = "open"
    /\ panels = <<>>
    /\ calls = [c \in Slots |-> IdleCall]
    /\ ncalls = 0
    /\ realTime = NoRealTime
    /\ webviews = NoWebviews

NextConc ==
    \/ MenuDismiss
    \/ MenuPreview
    \/ \E c \in Slots : Step(c)

SpecConc == InitConc /\ [][NextConc]_vars

\* ------------------------------------------------------ analyzeAndGetFixes
\* JSON values of the service's answer, by JavaScript type; v is the text of
\* the value
JsUndefined == [t |-> "undefined", v |-> ""]
JsNull == [t |-> "null", v |-> ""]
JsString(s) == [t |-> "string", v |-> s]
JsNumber(s) == [t |-> "number", v |-> s]
JsArray == [t |-> "object", v |-> "[]"]

\* the left operand of || is kept when it is truthy
Truthy(x) ==
    IF x.t = "string" THEN x.v # ""
    ELSE IF x.t = "number" THEN x.v # "0"
    ELSE x.t = "object"

OrDefault(x, d) == IF Truthy(x) THEN x ELSE d

FixId(index) == IF index = 0 THEN "fix_0" ELSE "fix_1"

\* new SuggestedFix(fix.id || `fix_${index}`, ...); raw keeps the element of
\* the answer the proposal was made from
SuggestedFix(fix, index) ==
    [id |-> OrDefault(fix.id, JsString(FixId(index))),
     description |-> OrDefault(fix.description, JsString("No description")),
     originalCode |-> OrDefault(fix.originalCode, JsString("")),
     fixedCode |-> OrDefault(fix.fixedCode, JsString("")),
     lineStart |-> OrDefault(fix.lineStart, JsNumber("1")),
     lineEnd |-> OrDefault(fix.lineEnd, JsNumber("1")),
     severity |-> OrDefault(fix.severity, JsString("info")),
     type |-> OrDefault(fix.type, JsString("style")),
     raw |-> fix]

\* the items of the quick pick cannot be built: toUpperCase and substring are
\* methods of strings only
MenuRaises(fs) ==
    \E n \in 1..Len(fs) :
        \/ fs[n].type.t # "string"
        \/ fs[n].originalCode.t # "string"
        \/ fs[n].fixedCode.t # "string"

TextValues ==
    {JsUndefined, JsNull, JsString(""), JsString("a"), JsNumber("42"), JsArray}

\* the elements of the answer's fixes array: objects with any of the fields
\* missing or of another type, and null
RawFixes ==
    [json : {"object"},
     id : {JsUndefined, JsString("f")},
     description : {JsUndefined, JsString("d")},
     originalCode : TextValues,
     fixedCode : TextValues,
     lineStart : {JsUndefined, JsNumber("0"), JsNumber("2")},
     lineEnd : {JsUndefined, JsNumber("2")},
     severity : {JsUndefined, JsString("error")},
     type : {JsUndefined, JsString("bug"), JsNumber("42")}]
    \cup
    [json : {"null"},
     id : {JsUndefined}, description : {JsUndefined},
     originalCode : {JsUndefined}, fixedCode : {JsUndefined},
     lineStart : {JsUndefined}, lineEnd : {JsUndefined},
     severity : {JsUndefined}, type : {JsUndefined}]

\* well-formed elements whose id is missing, chosen by the service, or of
\* the form the default has
RawIdFixes ==
    [json : {"object"},
     id : {JsUndefined, JsString("f"), JsString("fix_1")},
     description : {JsString("d")},
     originalCode : {JsString("a")},
     fixedCode : {JsString(""), JsString("a")},
     lineStart : {JsNumber("2")},
     lineEnd : {JsNumber("2")},
     severity : {JsString("error")},
     type : {JsString("bug")}]

\* what the request to the service ends in: it fails, or its content is not
\* JSON, or it is JSON with a fixes array
Responses ==
    [kind : {"failed", "invalid"}, fixes : {<<>>}]
    \cup [kind : {"json"},
          fixes : {<<>>} \cup {<<p>> : p \in RawFixes}
                        \cup {<<p, q>> : p \in RawIdFixes, q \in RawIdFixes}]

\* an analysis that treats a reply that is not JSON as a failed request
AnalyzeOutcomeStrict(r) ==
    IF r.kind = "failed" \/ r.kind = "invalid" THEN "rethrown"
    ELSE IF \E n \in 1..Len(r.fixes) : r.fixes[n].json = "null" THEN "raised"
    ELSE "proposals"

\* how analyzeAndGetFixes ends on the answer r: the error of the chat call is
\* rethrown by the outer catch, a reply that JSON.parse rejects gives [] in
\* the inner catch, the map callback raises on a null element, and otherwise
\* the proposals are returned
AnalyzeOutcome(r) ==
    IF r.kind = "failed" THEN "rethrown"
    ELSE IF r.kind = "invalid" THEN "empty"
    ELSE IF \E n \in 1..Len(r.fixes) : r.fixes[n].json = "null" THEN "raised"
    ELSE "proposals"

\* reviewAndFix awaits analyzeAndGetFixes: fixes holds the answer before the
\* step and the proposals after it
Analyze ==
    /\ menu = "analyzing"
    /\ IF AnalyzeOutcome(fixes) = "rethrown"
       THEN menu' = "error: request" /\ UNCHANGED fixes
       ELSE IF AnalyzeOutcome(fixes) = "empty"
       THEN menu' = "processing" /\ fixes' = <<>>
       ELSE IF AnalyzeOutcome(fixes) = "raised"
       THEN menu' = "error: property of null" /\ UNCHANGED fixes
       ELSE /\ menu' = "processing"
            /\ fixes' = [n \in 1..Len(fixes.fixes) |->
                            SuggestedFix(fixes.fixes[n], n - 1)]
    /\ UNCHANGED <<doc, panels, calls, ncalls, realTime, webviews>>

\* showFixesMenu up to the await of its quick pick
ShowMenu ==
    /\ menu = "processing"
    /\ menu' = IF Len(fixes) = 0 THEN "no issues"
               ELSE IF MenuRaises(fixes) THEN "error: not a function"
               ELSE "open"
    /\ UNCHANGED <<doc, fixes, panels, calls, ncalls, realTime, webviews>>

InitNorm ==
    /\ doc = <<>>
    /\ fixes \in Responses
    /\ menu = "analyzing"
    /\ panels = <<>>
    /\ calls = [c \in Slots |-> IdleCall]
    /\ ncalls = 0
    /\ realTime = NoRealTime
    /\ webviews = NoWebviews

NextNorm ==
    \/ Analyze
    \/ ShowMenu

SpecNorm == InitNorm /\ [][NextNorm]_vars

\* documents of several lines, anchors and replacements that may hold a line
\* terminator
LineChars == {"a", NL}

LineDocs ==
    {d \in [1..(MaxDocLen + 1) -> LineChars] :
        (\E x \in DOMAIN d : d[x] = NL) /\ (\E x \in DOMAIN d : d[x] = "a")}

LineProposals ==
    {Fix(0, o, f, 1, 1) :
        o \in SeqsUpTo(LineChars, MaxAnchorLen + 1) \ {<<>>},
        f \in SeqsUpTo(LineChars, MaxFixLen - 1)}

LineFixLists ==
    {[n \in 1..Len(fs) |-> [fs[n] EXCEPT !.id = n]] :
        fs \in UNION {[1..k -> LineProposals] : k \in 1..MaxFixes}}

InitLines ==
    /\ doc \in LineDocs
    /\ fixes \in LineFixLists
    /\ menu = "open"
    /\ panels = <<>>
    /\ calls = [c \in Slots |-> IdleCall]
    /\ ncalls = 0
    /\ realTime = NoRealTime
    /\ webviews = NoWebviews

SpecLines == InitLines /\ [][Next]_vars

\* documents of several lines and one proposal whose advisory lines may lie
\* outside the document; the anchor "b" occurs in none of the documents
AdvisoryLines == {-1} \cup 1..(MaxLine + 1)

FallbackProposals ==
    {Fix(1, o, f, ls, le) :
        o \in {<<"a">>, <<"b">>},
        f \in SeqsUpTo(Chars, MaxFixLen - 1),
        ls \in AdvisoryLines,
        le \in AdvisoryLines}

InitFallback ==
    /\ doc \in LineDocs
    /\ fixes \in {<<p>> : p \in FallbackProposals}
    /\ menu = "open"
    /\ panels = <<>>
    /\ calls = [c \in Slots |-> IdleCall]
    /\ ncalls = 0
    /\ realTime = NoRealTime
    /\ webviews = NoWebviews

SpecFallback == InitFallback /\ [][Next]_vars

\* ------------------------------------------- addFeature, quickFixSelection
\* String.prototype.trim on the texts of the model, whose only white space is
\* the newline
RECURSIVE TrimStart(_)
TrimStart(s) == IF s # <<>> /\ s[1] = NL THEN TrimStart(Tail(s)) ELSE s

RECURSIVE TrimEnd(_)
TrimEnd(s) ==
    IF s # <<>> /\ s[Len(s)] = NL THEN TrimEnd(SubSeq(s, 1, Len(s) - 1)) ELSE s

Trim(s) == TrimEnd(TrimStart(s))

\* the content of a reply: text without code fences (the texts of the model
\* hold no backquote, so the two replace calls leave them alone); the empty
\* text also stands for a reply without content
Contents ==
    {s \in SeqsUpTo({"b", NL}, MaxFixLen) : s # <<"b", "b">>}

\* the selections of the editor, as pairs of offsets
Selections == {sel \in (0..MaxDocLen) \X (0..MaxDocLen) : sel[1] <= sel[2]}

Msg(kind) == [kind |-> kind, applied |-> 0, failed |-> 0, skipped |-> 0]

\* new vscode.Range(document.positionAt(0), document.positionAt(code.length)):
\* code is the text read before the feature was generated, the positions are
\* taken in the document as it is when the message arrives
FullRange(text, code) ==
    MkRange(PositionAt(text, 0), PositionAt(text, Len(code)))

\* the document has changed: the edits requested on the text before the
\* change are not applied any more
MarkStale(cs) ==
    [o \in DOMAIN cs |->
        [cs[o] EXCEPT !.pending = [n \in 1..Len(@) |-> [@[n] EXCEPT !.stale = TRUE]]]]

\* the record of a call whose preview panel handler resumes after the first
\* pending editor.edit: unless the edit raised, the message msg is shown and
\* the panel is disposed; the value the edit resolves to is not read
PreviewAfterEdit(k, out, text, msg) ==
    LET rest == Tail(k.pending)
        open == k.pc = "preview" /\ out = "threw"
    IN  [k EXCEPT !.pending = rest,
                  !.pc = IF open THEN "preview"
                         ELSE IF rest = <<>> THEN "done" ELSE "disposed",
                  !.outcome = Append(@, IF out = "ok" THEN "applied"
                                        ELSE IF out = "rejected" THEN "failed"
                                        ELSE "threw"),
                  !.result = IF out = "ok" THEN "applied" ELSE @,
                  !.docEnd = IF out = "ok" THEN text ELSE @,
                  !.msgs = IF out = "threw" THEN @ ELSE Append(@, Msg(msg))]

\* the host answers the first pending editor.edit of the preview panel of
\* call c, whose handler shows msg
PreviewEditDone(c, out, msg) ==
    /\ calls[c].pending # <<>>
    /\ out \in HostOutcomes
    /\ out = "ok" => ~calls[c].pending[1].stale
    /\ LET e == calls[c].pending[1]
           text == IF out = "ok" THEN HostApply(doc, e.range, calls[c].text) ELSE doc
           cs == IF out = "ok" THEN MarkStale(calls) ELSE calls
       IN  /\ doc' = text
           /\ calls' = [cs EXCEPT ![c] = PreviewAfterEdit(cs[c], out, text, msg)]
    /\ UNCHANGED <<fixes, menu, panels, ncalls, realTime, webviews>>

\* the user closes the preview panel of call c
PreviewClose(c) ==
    /\ calls[c].pc = "preview"
    /\ calls' = [calls EXCEPT ![c] =
          [@ EXCEPT !.pc = IF calls[c].pending = <<>> THEN "done" ELSE "disposed",
                    !.result = IF @ = "none" THEN "closed" ELSE @]]
    /\ UNCHANGED <<doc, fixes, menu, panels, ncalls, realTime, webviews>>

\* addFeature up to the await of showInputBox; without an active editor the
\* error message is shown and the call returns
FeatureInvoke(c, hasEditor) ==
    /\ CanStart(c)
    /\ ncalls' = ncalls + 1
    /\ calls' = [calls EXCEPT ![c] =
          IF hasEditor
          THEN [IdleCall EXCEPT !.kind = "feature", !.pc = "input"]
          ELSE [IdleCall EXCEPT !.kind = "feature", !.pc = "done",
                                !.result = "noEditor",
                                !.msgs = <<Msg("error")>>]]
    /\ UNCHANGED <<doc, fixes, menu, panels, realTime, webviews>>

\* the input box is answered or dismissed: without a description the call
\* returns, with one code = document.getText() is read and the chat call is
\* awaited
FeatureDescribed(c, described) ==
    /\ calls[c].kind = "feature" /\ calls[c].pc = "input"
    /\ calls' = [calls EXCEPT ![c] =
          IF described
          THEN [@ EXCEPT !.pc = "generating", !.doc0 = doc]
          ELSE [@ EXCEPT !.pc = "done", !.result = "dismissed"]]
    /\ UNCHANGED <<doc, fixes, menu, panels, ncalls, realTime, webviews>>

\* the chat call completes with content and the preview panel is shown, or
\* it fails and the error message is shown
FeatureGenerated(c, ok, content) ==
    /\ calls[c].kind = "feature" /\ calls[c].pc = "generating"
    /\ calls' = [calls EXCEPT ![c] =
          IF ok
          THEN [@ EXCEPT !.pc = "preview", !.text = Trim(content)]
          ELSE [@ EXCEPT !.pc = "done", !.result = "error",
                         !.msgs = Append(@, Msg("error"))]]
    /\ UNCHANGED <<doc, fixes, menu, panels, ncalls, realTime, webviews>>

\* the message 'apply' of the preview panel, up to the await of editor.edit
FeatureApply(c) ==
    /\ calls[c].kind = "feature" /\ calls[c].pc = "preview"
    /\ calls[c].edits < MaxApplies
    /\ calls' = [calls EXCEPT ![c] =
          [@ EXCEPT !.edits = @ + 1,
                    !.pending = Append(@, [range |-> FullRange(doc, calls[c].doc0),
                                           stale |-> FALSE])]]
    /\ UNCHANGED <<doc, fixes, menu, panels, ncalls, realTime, webviews>>

\* editor.edit of the 'apply' handler completes; the message is shown and the
\* panel is disposed unless the call raised
FeatureEditDone(c, out) ==
    /\ calls[c].kind = "feature"
    /\ PreviewEditDone(c, out, "featureAdded")

\* the user closes the feature preview
FeatureClose(c) ==
    /\ calls[c].kind = "feature"
    /\ PreviewClose(c)

\* quickFixSelection up to the await of the chat call: without an editor or
\* with an empty selection the error message is shown and the call returns
QuickFixStart(c, hasEditor, sel) ==
    /\ CanStart(c)
    /\ sel \in Selections /\ sel[2] <= Len(doc)
    /\ ncalls' = ncalls + 1
    /\ calls' = [calls EXCEPT ![c] =
          IF ~hasEditor \/ sel[1] = sel[2]
          THEN [IdleCall EXCEPT !.kind = "quickfix", !.pc = "done",
                                !.result = IF hasEditor THEN "noSelection"
                                           ELSE "noEditor",
                                !.msgs = <<Msg("error")>>]
          ELSE [IdleCall EXCEPT !.kind = "quickfix", !.pc = "generating",
                                !.doc0 = doc,
                                !.startOffset = sel[1], !.endOffset = sel[2],
                                !.range = MkRange(PositionAt(doc, sel[1]),
                                                  PositionAt(doc, sel[2])),
                                !.text = SubSeq(doc, sel[1] + 1, sel[2])]]
    /\ UNCHANGED <<doc, fixes, menu, panels, realTime, webviews>>

\* the chat call completes: fixedCode is the content, or the selected code
\* when there is none, trimmed; the prompt is shown.  A failed call shows the
\* error message
QuickFixGenerated(c, ok, content) ==
    /\ calls[c].kind = "quickfix" /\ calls[c].pc = "generating"
    /\ calls' = [calls EXCEPT ![c] =
          IF ok
          THEN [@ EXCEPT !.pc = "confirm",
                         !.text = Trim(IF content # <<>> THEN content ELSE @)]
          ELSE [@ EXCEPT !.pc = "done", !.result = "error",
                         !.msgs = Append(@, Msg("error"))]]
    /\ UNCHANGED <<doc, fixes, menu, panels, ncalls, realTime, webviews>>

QuickFixAnswers == {"Yes, Apply", "Preview", "Cancel", "undefined"}

\* the prompt of quickFixSelection is answered: the edit of the selection is
\* requested, the preview panel is created, or the call returns
QuickFixAnswer(c, confirm) ==
    /\ calls[c].kind = "quickfix" /\ calls[c].pc = "confirm"
    /\ confirm \in QuickFixAnswers
    /\ calls' = [calls EXCEPT ![c] =
          IF confirm = "Yes, Apply"
          THEN [@ EXCEPT !.confirm = confirm, !.pc = "edit", !.edits = @ + 1,
                         !.pending = <<[range |-> calls[c].range,
                                         stale |-> FALSE]>>]
          ELSE IF confirm = "Preview"
          THEN [@ EXCEPT !.confirm = confirm, !.pc = "preview"]
          ELSE [@ EXCEPT !.confirm = confirm, !.pc = "done",
                         !.result = "declined"]]
    /\ UNCHANGED <<doc, fixes, menu, panels, ncalls, realTime, webviews>>

\* the editor.edit requested after "Yes, Apply" completes: 'Code fixed
\* successfully!' is shown whatever it resolves to; an exception is caught
\* and shown as an error
QuickFixEditDone(c, out) ==
    /\ calls[c].kind = "quickfix" /\ calls[c].pc = "edit"
    /\ out \in HostOutcomes
    /\ out = "ok" => ~calls[c].pending[1].stale
    /\ LET e == calls[c].pending[1]
           text == IF out = "ok" THEN HostApply(doc, e.range, calls[c].text) ELSE doc
           cs == IF out = "ok" THEN MarkStale(calls) ELSE calls
       IN  /\ doc' = text
           /\ calls' = [cs EXCEPT ![c] =
                 [@ EXCEPT !.pc = "done", !.pending = <<>>,
                           !.result = IF out = "ok" THEN "applied"
                                      ELSE IF out = "rejected" THEN "rejected"
                                      ELSE "threw",
                           !.docEnd = text,
                           !.msgs = Append(@, Msg(IF out = "threw" THEN "error"
                                                  ELSE "codeFixed"))]]
    /\ UNCHANGED <<fixes, menu, panels, ncalls, realTime, webviews>>

\* the message 'apply' of the quick fix preview, up to the await of
\* editor.edit: the selection taken at the start is replaced
QuickFixApply(c) ==
    /\ calls[c].kind = "quickfix" /\ calls[c].pc = "preview"
    /\ calls[c].edits < MaxApplies
    /\ calls' = [calls EXCEPT ![c] =
          [@ EXCEPT !.edits = @ + 1,
                    !.pending = Append(@, [range |-> calls[c].range,
                                           stale |-> FALSE])]]
    /\ UNCHANGED <<doc, fixes, menu, panels, ncalls, realTime, webviews>>

\* editor.edit of the 'apply' handler of the quick fix preview completes: the
\* panel is disposed and 'Code fixed!' is shown unless the call raised
QuickFixPreviewEditDone(c, out) ==
    /\ calls[c].kind = "quickfix" /\ calls[c].pc \in {"preview", "disposed"}
    /\ PreviewEditDone(c, out, "codeFixed")

\* the user closes the quick fix preview
QuickFixClose(c) ==
    /\ calls[c].kind = "quickfix"
    /\ PreviewClose(c)

\* the user edits the document
UserEdit(d) ==
    /\ d # doc
    /\ doc' = d
    /\ calls' = MarkStale(calls)
    /\ UNCHANGED <<fixes, menu, panels, ncalls, realTime, webviews>>

\* the texts the user gives the document while a feature or a quick fix
\* is under way
EditedDocs == SeqsUpTo({"a"}, MaxDocLen)

InitFeature ==
    /\ doc \in EditedDocs
    /\ fixes = <<>>
    /\ menu = "closed"
    /\ panels = <<>>
    /\ calls = [c \in Slots |-> IdleCall]
    /\ ncalls = 0
    /\ realTime = NoRealTime
    /\ webviews = NoWebviews

\* addFeature calls, two of them at a time, and the edits of the user
NextFeature ==
    \/ \E c \in Slots, hasEditor \in BOOLEAN : FeatureInvoke(c, hasEditor)
    \/ \E c \in Slots, described \in BOOLEAN : FeatureDescribed(c, described)
    \/ \E c \in Slots, ok \in BOOLEAN, content \in Contents :
          FeatureGenerated(c, ok, content)
    \/ \E c \in Slots : FeatureApply(c)
    \/ \E c \in Slots, out \in HostOutcomes : FeatureEditDone(c, out)
    \/ \E c \in Slots : FeatureClose(c)
    \/ \E d \in EditedDocs : UserEdit(d)
    \/ \E c \in Slots : Return(c)

\* quickFixSelection calls, one at a time, and the edits of the user
NextQuickFix ==
    \/ \E hasEditor \in BOOLEAN, sel \in Selections : QuickFixStart(1, hasEditor, sel)
    \/ \E ok \in BOOLEAN, content \in Contents : QuickFixGenerated(1, ok, content)
    \/ \E confirm \in QuickFixAnswers : QuickFixAnswer(1, confirm)
    \/ \E out \in HostOutcomes : QuickFixEditDone(1, out)
    \/ QuickFixApply(1)
    \/ \E out \in HostOutcomes : QuickFixPreviewEditDone(1, out)
    \/ QuickFixClose(1)
    \/ \E d \in EditedDocs : UserEdit(d)
    \/ Return(1)

SpecQuickFix == InitFeature /\ [][NextQuickFix]_vars

SpecFeature == InitFeature /\ [][NextFeature]_vars

\* ------------------------------------------------------------- activate
Timeouts == [id : 1..MaxEvents, document : Documents]

\* the change listener is registered (line 1118) and its body runs (line 1121)
ChangeHandled(r) == r.listening /\ r.isRealTimeReviewEnabled

\* the text of document d
TextOf(text, d) == IF d = "A" THEN text ELSE <<>>

\* performRealTimeReview(document) up to the await of ai.chat, as a change of
\* the record r: it returns when no client can be set up or when the text is
\* longer than maxFileSize
PerformRealTimeReview(r, d, text, aiReady) ==
    LET id == r.started + 1
    IN  IF ~aiReady \/ Len(text) > MaxFileSize
        THEN [r EXCEPT !.started = id]
        ELSE [r EXCEPT !.started = id,
                       !.lastChat[d] = id,
                       !.overlapped[d] =
                           @ \/ \E o \in r.inflight : o.document = d,
                       !.inflight = @ \cup {[id |-> id, document |-> d,
                                             text |-> text]}]

\* onDidChangeTextDocument(event) with event.document = d, whose text is now
\* text
DocChange(d, text) ==
    /\ realTime.events < MaxEvents
    /\ text = TextOf(text, d)
    /\ doc' = IF d = "A" THEN text ELSE doc
    /\ realTime' =
         LET r == [realTime EXCEPT
                      !.events = @ + 1,
                      !.fired = FALSE,
                      !.lastChange = [document |-> d,
                                      enabled |-> realTime.isRealTimeReviewEnabled]]
         IN  IF ChangeHandled(realTime)
             THEN [r EXCEPT
                      !.timeouts =
                          {t \in @ : ~(realTime.realTimeReviewTimer # 0
                                         /\ t.id = realTime.realTimeReviewTimer)}
                            \cup {[id |-> realTime.nextId + 1, document |-> d]},
                      !.realTimeReviewTimer = realTime.nextId + 1,
                      !.nextId = @ + 1]
             ELSE r
    /\ UNCHANGED <<fixes, menu, panels, calls, ncalls, webviews>>

\* onDidChangeConfiguration for enableRealTimeReview, the setting now being v
ConfigChange(v) ==
    /\ realTime.isRealTimeReviewEnabled # v
    /\ realTime' = [realTime EXCEPT !.isRealTimeReviewEnabled = v]
    /\ UNCHANGED <<doc, fixes, menu, panels, calls, ncalls, webviews>>

\* the callback of a setTimeout runs: performRealTimeReview(event.document)
TimerFire(t, aiReady) ==
    /\ t \in realTime.timeouts
    /\ realTime' =
         PerformRealTimeReview([realTime EXCEPT !.timeouts = @ \ {t},
                                                !.fired = TRUE,
                                                !.reviews = Append(@, t.document)],
                               t.document, TextOf(doc, t.document), aiReady)
    /\ UNCHANGED <<doc, fixes, menu, panels, calls, ncalls, webviews>>

\* onDidSaveTextDocument(document): the listener is registered with the
\* change listener
SaveDocument(d, reviewOnSave, aiReady) ==
    /\ realTime.triggers < MaxTriggers
    /\ realTime.listening
    /\ LET r == [realTime EXCEPT !.triggers = @ + 1]
       IN  realTime' =
             IF realTime.isRealTimeReviewEnabled /\ reviewOnSave
             THEN PerformRealTimeReview(r, d, TextOf(doc, d), aiReady)
             ELSE r
    /\ UNCHANGED <<doc, fixes, menu, panels, calls, ncalls, webviews>>

\* onDidChangeActiveTextEditor(editor): d is the document of the editor, or
\* "none" when there is no editor
ActiveEditorChanged(d, aiReady) ==
    /\ realTime.triggers < MaxTriggers
    /\ d # realTime.activeEditor
    /\ LET r == [realTime EXCEPT !.triggers = @ + 1, !.activeEditor = d,
                                 !.currentDocument = IF d = "none" THEN @ ELSE d]
       IN  realTime' =
             IF d # "none" /\ realTime.isRealTimeReviewEnabled
             THEN PerformRealTimeReview(r, d, TextOf(doc, d), aiReady)
             ELSE r
    /\ UNCHANGED <<doc, fixes, menu, panels, calls, ncalls, webviews>>

\* the file watcher reports a change of the file of document d
FileChanged(d, aiReady) ==
    /\ realTime.triggers < MaxTriggers
    /\ LET r == [realTime EXCEPT !.triggers = @ + 1]
       IN  realTime' =
             IF realTime.isRealTimeReviewEnabled /\ realTime.activeEditor # d
             THEN PerformRealTimeReview(r, d, TextOf(doc, d), aiReady)
             ELSE r
    /\ UNCHANGED <<doc, fixes, menu, panels, calls, ncalls, webviews>>

\* the message refreshReview of review panel p
RefreshReview(p, aiReady) ==
    /\ realTime.triggers < MaxTriggers
    /\ p \in webviews.open \cap webviews.handled
    /\ LET r == [realTime EXCEPT !.triggers = @ + 1]
       IN  realTime' =
             IF realTime.activeEditor # "none"
             THEN PerformRealTimeReview(r, realTime.activeEditor,
                                        TextOf(doc, realTime.activeEditor), aiReady)
             ELSE r
    /\ UNCHANGED <<doc, fixes, menu, panels, calls, ncalls, webviews>>

\* the replies of ai.chat to a real-time review: the call fails, the content
\* is no JSON, it is the JSON null, it is JSON without an issues array, or
\* it has an issues array whose elements are null or objects with a line, a
\* message and a severity
IssueItem(line, message, severity) ==
    [t |-> "object", line |-> line, message |-> message, severity |-> severity]

IssueItems ==
    {[t |-> "null", line |-> 0, message |-> "", severity |-> ""],
     IssueItem(1, "m", "error"), IssueItem(1, "m", "other"),
     IssueItem(1, "m", "info"),
     IssueItem(0, "m", "error"), IssueItem(1, "", "error"),
     IssueItem(-1, "m", "error")}

\* the issues arrays: up to MaxIssues elements, the elements before the last
\* being issues that give a diagnostic
IssueLists ==
    {is \in SeqsUpTo(IssueItems, MaxIssues) :
        \A n \in 1..(Len(is) - 1) : is[n] = IssueItem(1, "m", "error")}

ReviewReplies ==
    {[kind |-> k, issues |-> <<>>] : k \in {"failed", "invalid", "null", "noArray"}}
      \cup {[kind |-> "issues", issues |-> is] : is \in IssueLists}

\* vscode.DiagnosticSeverity, the numbers of the host's enumeration
DiagnosticSeverity == [Error |-> 0, Warning |-> 1, Information |-> 2, Hint |-> 3]

\* const severityMap = { 'error': ..., 'warning': ..., 'info': ..., 'hint': ... }
severityMap ==
    [error |-> DiagnosticSeverity.Error, warning |-> DiagnosticSeverity.Warning,
     info |-> DiagnosticSeverity.Information, hint |-> DiagnosticSeverity.Hint]

\* severityMap[issue.severity] || vscode.DiagnosticSeverity.Warning: a name
\* the map does not hold gives undefined, and the number 0 (Error) is falsy
\* as well, so both give Warning
SeverityOf(severity) ==
    IF severity \in DOMAIN severityMap /\ severityMap[severity] # 0
    THEN severityMap[severity]
    ELSE DiagnosticSeverity.Warning

\* the diagnostics of the loop over the issues, and whether the loop raised:
\* on an element that is null, or on a line below 1 that is not 0 (a Range
\* cannot be built on a negative line); an issue without a line or a message
\* is left out
RECURSIVE IssueDiagnostics(_)
IssueDiagnostics(is) ==
    IF is = <<>> THEN [raised |-> FALSE, items |-> <<>>]
    ELSE LET issue == is[1]
             rest == IssueDiagnostics(Tail(is))
         IN  IF issue.t = "null" THEN [raised |-> TRUE, items |-> <<>>]
             ELSE IF issue.line # 0 /\ issue.message # ""
             THEN IF issue.line - 1 < 0 \/ rest.raised
                  THEN [raised |-> TRUE, items |-> <<>>]
                  ELSE [raised |-> FALSE,
                        items |-> <<[line |-> issue.line - 1,
                                     severity |-> SeverityOf(issue.severity)]>>
                                    \o rest.items]
             ELSE rest

\* the entry of the document after the reply to review r: set to the
\* diagnostics of r, set to the empty list by one of the two catch clauses,
\* or left alone (JSON without an issues array)
DiagnosticsAfter(d, r, reply) ==
    LET cleared == [review |-> r.id, text |-> r.text, set |-> "cleared",
                    items |-> <<>>]
    IN  IF reply.kind = "noArray" THEN d
        ELSE IF reply.kind # "issues" THEN cleared
        ELSE IF IssueDiagnostics(reply.issues).raised THEN cleared
        ELSE [review |-> r.id, text |-> r.text, set |-> "issues",
              items |-> IssueDiagnostics(reply.issues).items]

ReviewIds == 1..(MaxEvents + MaxTriggers)

\* the reply to the chat call of the review with number id arrives and the
\* rest of performRealTimeReview runs
ReviewDone(id, reply) ==
    /\ \E r \in realTime.inflight : r.id = id
    /\ reply \in ReviewReplies
    /\ LET r == CHOOSE r \in realTime.inflight : r.id = id
       IN  realTime' = [realTime EXCEPT
             !.inflight = @ \ {r},
             !.produced = IF reply.kind = "noArray" THEN @ ELSE @ \cup {r.id},
             !.diagnostics[r.document] = DiagnosticsAfter(@, r, reply)]
    /\ UNCHANGED <<doc, fixes, menu, panels, calls, ncalls, webviews>>

\* panel.onDidDispose(() => { reviewPanel = null; })
AfterDispose(ref, p) == 0

\* command openReviewPanel: createReviewWebview(context); reading the html
\* file may raise after the panel was created
OpenReviewPanel(html) ==
    /\ webviews.created < MaxReviewPanels
    /\ html \in {"read", "threw"}
    /\ LET p == webviews.created + 1
       IN  webviews' =
             IF html = "threw"
             THEN [webviews EXCEPT !.created = p, !.open = @ \cup {p}]
             ELSE [webviews EXCEPT !.created = p, !.open = @ \cup {p},
                                   !.handled = @ \cup {p},
                                   !.reviewPanel = p]
    /\ UNCHANGED <<doc, fixes, menu, panels, calls, ncalls, realTime>>

\* the user closes review panel p
DisposeReviewPanel(p) ==
    /\ p \in webviews.open
    /\ webviews' = [webviews EXCEPT
                       !.open = @ \ {p},
                       !.reviewPanel = IF p \in webviews.handled
                                       THEN AfterDispose(@, p) ELSE @]
    /\ UNCHANGED <<doc, fixes, menu, panels, calls, ncalls, realTime>>

\* activate: the flag is read from the configuration and the change listener
\* is registered when it is set
InitHost ==
    /\ doc = <<>>
    /\ fixes = <<>>
    /\ menu = "closed"
    /\ panels = <<>>
    /\ calls = [c \in Slots |-> IdleCall]
    /\ ncalls = 0
    /\ \E v \in BOOLEAN, e \in Documents \cup {"none"} :
          realTime = [NoRealTime EXCEPT !.isRealTimeReviewEnabled = v,
                                        !.listening = v,
                                        !.activeEditor = e,
                                        !.currentDocument = e]
    /\ webviews = NoWebviews

NextHost ==
    \/ \E d \in Documents : DocChange(d, TextOf(doc, d))
    \/ \E v \in BOOLEAN : ConfigChange(v)
    \/ \E t \in Timeouts, aiReady \in BOOLEAN : TimerFire(t, aiReady)
    \/ \E html \in {"read", "threw"} : OpenReviewPanel(html)
    \/ \E p \in 1..MaxReviewPanels : DisposeReviewPanel(p)
    \/ \E p \in 1..MaxReviewPanels, aiReady \in BOOLEAN : RefreshReview(p, aiReady)

SpecHost == InitHost /\ [][NextHost]_vars

\* the real-time reviews of the open documents while real-time review is
\* enabled: the events that start them and the replies that end them
ReviewTexts == SeqsUpTo({"a"}, MaxDocLen)

InitReview ==
    /\ doc = <<>>
    /\ fixes = <<>>
    /\ menu = "closed"
    /\ panels = <<>>
    /\ calls = [c \in Slots |-> IdleCall]
    /\ ncalls = 0
    /\ realTime = [NoRealTime EXCEPT !.isRealTimeReviewEnabled = TRUE,
                                     !.listening = TRUE]
    /\ webviews = NoWebviews

NextReview ==
    \/ \E text \in ReviewTexts : DocChange("A", text)
    \/ \E t \in Timeouts, aiReady \in BOOLEAN : TimerFire(t, aiReady)
    \/ \E d \in Documents, reviewOnSave \in BOOLEAN, aiReady \in BOOLEAN :
          SaveDocument(d, reviewOnSave, aiReady)
    \/ \E d \in Documents \cup {"none"}, aiReady \in BOOLEAN :
          ActiveEditorChanged(d, aiReady)
    \/ \E d \in Documents, aiReady \in BOOLEAN : FileChanged(d, aiReady)
    \/ \E id \in ReviewIds, reply \in ReviewReplies : ReviewDone(id, reply)

SpecReview == InitReview /\ [][NextReview]_vars

\* the event loop resumes a suspended batch: the loop body and the code after
\* the loop run when they are reached, and every editor.edit that was
\* requested completes
LiveFixLists ==
    {fs \in FixLists :
        \A n \in 1..Len(fs) : fs[n].lineStart = 1 /\ Len(fs[n].fixedCode) <= 1}

InitLive ==
    /\ doc \in Docs
    /\ fixes \in LiveFixLists
    /\ menu = "open"
    /\ panels = <<>>
    /\ calls = [c \in Slots |-> IdleCall]
    /\ ncalls = 0
    /\ realTime = NoRealTime
    /\ webviews = NoWebviews

SpecLive ==
    /\ InitLive /\ [][Next]_vars
    /\ WF_vars(\E out \in HostOutcomes : HostEditDone(1, out))

\* ------------------------------------------------------------- properties
Batches == {c \in Slots : calls[c].kind = "batch"}
Singles == {c \in Slots : calls[c].kind = "single"}

\* a confirmed batch has left its loop and shown its summary
BatchDone(c) == calls[c].kind = "batch" /\ calls[c].result = "summary"

\* proposals of the call whose processing ended with outcome o
Ended(k, o) == {n \in 1..Len(k.outcome) : k.outcome[n] = o}

\* no host edit of the call was rejected or raised
HostAccepted(k) == Ended(k, "failed") = {} /\ Ended(k, "threw") = {}

Occurrences(text, pat) == {i \in 0..Len(text) : OccursAt(text, pat, i)}

\* the anchor spans of two proposals, taken at the first occurrence in text,
\* share at least one offset
AnchorSpansIntersect(text, f, g) ==
    /\ Occurrences(text, f.originalCode) # {}
    /\ Occurrences(text, g.originalCode) # {}
    /\ LET s1 == Min(Occurrences(text, f.originalCode))
           s2 == Min(Occurrences(text, g.originalCode))
       IN  /\ s1 < s2 + Len(g.originalCode)
           /\ s2 < s1 + Len(f.originalCode)

\* C1 (overlap law): of two proposals of one batch whose anchor spans
\* intersect in the document as it was when the batch started, at most one
\* is applied.
C1_OverlapLaw ==
    \A c \in Batches :
        LET k == calls[c]
        IN  \A m, n \in Ended(k, "applied") :
                m # n => ~AnchorSpansIntersect(k.doc0, k.fixes[m], k.fixes[n])

\* C2 (idempotence): a batch that runs on the document left by an earlier
\* batch of the same proposals reports every proposal not found and leaves
\* the document as it found it.
C2_Idempotent ==
    \A c \in Slots :
        ( /\ BatchDone(c) /\ calls[c].rerun
          /\ \A n \in 1..Len(calls[c].fixes) :
                 calls[c].fixes[n].originalCode # <<>> ) =>
            /\ Ended(calls[c], "notFound") = 1..Len(calls[c].fixes)
            /\ doc = calls[c].doc0

\* C3 (same anchor, occurring once): of two proposals with the same anchor
\* text, which occurs exactly once, and different replacements, exactly one
\* is applied and the other is skipped or not found.
C3_SameAnchorOnce ==
    \A c \in Slots :
        LET k == calls[c]
        IN  ( /\ BatchDone(c)
              /\ Len(k.fixes) = 2
              /\ k.fixes[1].originalCode = k.fixes[2].originalCode
              /\ k.fixes[1].fixedCode # k.fixes[2].fixedCode
              /\ Cardinality(Occurrences(k.doc0, k.fixes[1].originalCode)) = 1
              /\ HostAccepted(k) )
            => /\ Cardinality(Ended(k, "applied")) = 1
               /\ Cardinality(Ended(k, "skipped") \cup Ended(k, "notFound")) = 1

\* C4 (one proposal, anchor present, host accepts): the batch reports
\* applied = 1 and nothing else, and the document is the one it started on
\* with the first occurrence of the anchor replaced by the replacement.
C4_OneProposalApplied ==
    \A c \in Slots :
        LET k == calls[c]
            a == k.fixes[1].originalCode
        IN  ( /\ BatchDone(c)
              /\ Len(k.fixes) = 1
              /\ a # <<>>
              /\ Occurrences(k.doc0, a) # {}
              /\ HostAccepted(k) )
            => /\ k.appliedCount = 1 /\ k.failedCount = 0 /\ k.skippedCount = 0
               /\ \E i \in Occurrences(k.doc0, a) :
                    /\ \A j \in Occurrences(k.doc0, a) : i <= j
                    /\ Len(doc) = Len(k.doc0) - Len(a) + Len(k.fixes[1].fixedCode)
                    /\ \A x \in 1..i : doc[x] = k.doc0[x]
                    /\ \A x \in 1..Len(k.fixes[1].fixedCode) :
                           doc[i + x] = k.fixes[1].fixedCode[x]
                    /\ \A x \in (i + Len(a) + 1)..Len(k.doc0) :
                           doc[x - Len(a) + Len(k.fixes[1].fixedCode)] = k.doc0[x]

C4_Witness ==
    \E c \in Slots :
        /\ BatchDone(c)
        /\ Len(calls[c].fixes) = 1
        /\ calls[c].fixes[1].originalCode = <<"a">>
        /\ Cardinality(Occurrences(calls[c].doc0, <<"a">>)) = 2
        /\ calls[c].outcome = <<"applied">>
        /\ doc # calls[c].doc0

\* C5 (empty anchor): a proposal with an empty anchor text is reported not
\* found by the batch and no host edit is requested for it.
C5_EmptyAnchorNotFound ==
    \A c \in Batches :
        LET k == calls[c]
        IN  /\ \A n \in 1..Len(k.outcome) :
                   k.fixes[n].originalCode = <<>> => k.outcome[n] = "notFound"
            /\ k.pc = "edit" => k.fixes[k.idx].originalCode # <<>>

\* C6 (no line fallback in a batch): when the loop processes a proposal whose
\* anchor text does not occur in the current document, that iteration
\* requests no host edit and leaves the document alone.
C6_NoLineFallback ==
    \A c \in Batches :
        LET k == calls[c]
        IN  /\ \A n \in 1..Len(k.texts) :
                   Occurrences(k.texts[n], k.fixes[n].originalCode) = {} =>
                       /\ n <= Len(k.outcome) /\ k.outcome[n] = "notFound"
                       /\ n < Len(k.texts) => k.texts[n + 1] = k.texts[n]
                       /\ n = Len(k.texts) => doc = k.texts[n]
            /\ k.edits = Cardinality({n \in 1..Len(k.texts) :
                                         \/ n > Len(k.outcome)
                                         \/ k.outcome[n] \in {"applied", "failed",
                                                               "threw"}})

C6_Witness ==
    \E c \in Slots :
        /\ BatchDone(c)
        /\ Len(calls[c].fixes) = 2
        /\ calls[c].outcome = <<"notFound", "notFound">>
        /\ \A n \in 1..2 : calls[c].fixes[n].originalCode # <<>>
        /\ calls[c].edits = 0
        /\ doc = calls[c].doc0

\* C7 (non-aborting loop): a confirmed batch processes every proposal it was
\* given exactly once and ends with its summary, whatever the host answered
\* to the edits; a rejection or an exception moves the loop to the next
\* proposal.
C7_NonAborting ==
    \A c \in Batches :
        LET k == calls[c]
        IN  /\ k.result # "threw"
            /\ k.pc \in {"loop", "edit"} => Len(k.outcome) = k.idx - 1
            /\ k.pc = "edit" => k.idx <= Len(k.fixes)
            /\ BatchDone(c) =>
                 /\ Len(k.outcome) = Len(fixes)
                 /\ \A n \in 1..Len(fixes) :
                        Cardinality({m \in 1..Len(k.outcome) :
                                        k.fixes[m] = fixes[n]}) = 1

C7_Witness ==
    \E c \in Slots :
        /\ BatchDone(c)
        /\ calls[c].outcome = <<"threw", "applied">>

\* C8 (single apply is gated by "Yes, Apply"): applySingleFix requests a host
\* edit only after the answer "Yes, Apply" to the prompt of its path, requests
\* at most one, and leaves the document as it found it on every other answer.
C8_SingleNeedsYes ==
    \A c \in Singles :
        LET k == calls[c]
        IN  /\ k.edits <= 1
            /\ (k.edits > 0 \/ k.pc = "edit") => k.confirm = "Yes, Apply"
            /\ k.confirm # "Yes, Apply" => doc = k.doc0
            /\ k.confirm # "none" =>
                 k.confirm \in (IF k.path = "fallback" THEN FallbackAnswers
                                ELSE FoundAnswers)

C8_Witness ==
    \E c \in Slots :
        /\ calls[c].kind = "single"
        /\ calls[c].path = "fallback"
        /\ calls[c].confirm = "Yes, Apply"
        /\ calls[c].outcome = <<"applied">>
        /\ doc # calls[c].doc0

\* C9 (batch apply is gated by "Yes, Apply All"): applyAllFixes enters its
\* loop and requests host edits only after the answer "Yes, Apply All"; on
\* "Cancel", on "Preview First" and on a dismissed prompt the call requests
\* no edit and leaves the document as it found it, whether it was started
\* from the menu or from the preview panel.
C9_BatchNeedsYes ==
    \A c \in Batches :
        LET k == calls[c]
        IN  /\ (k.edits > 0 \/ k.pc \in {"loop", "edit"} \/ k.outcome # <<>>)
                 => k.confirm = "Yes, Apply All"
            /\ k.confirm # "Yes, Apply All" => (k.edits = 0 /\ doc = k.doc0)

C9_Witness ==
    \E c \in Slots :
        /\ calls[c].kind = "batch"
        /\ calls[c].origin = "panel"
        /\ calls[c].pc = "done"
        /\ calls[c].confirm = "undefined"
        /\ \E n \in 1..Len(fixes) : Occurrences(doc, fixes[n].originalCode) # {}

\* C10 (four outcomes): failedCount counts only the proposals whose host edit
\* was rejected or raised; a proposal whose anchor is absent from the
\* document is not among them.
C10_FailedOnlyRejected ==
    \A c \in Batches :
        calls[c].failedCount =
            Cardinality(Ended(calls[c], "failed") \cup Ended(calls[c], "threw"))

BatchLooping(c) == calls[c].kind = "batch" /\ calls[c].pc \in {"loop", "edit"}

\* C11 (terminal summary): a batch that has entered its loop shows no
\* message while it loops, and eventually ends with exactly one summary,
\* shown after the last proposal was processed and carrying its counters.
C11_TerminalSummary ==
    /\ [](\A c \in Slots :
            /\ BatchLooping(c) => calls[c].msgs = <<>>
            /\ BatchDone(c) =>
                 /\ Len(calls[c].outcome) = Len(calls[c].fixes)
                 /\ Len(calls[c].msgs) = 1
                 /\ calls[c].msgs[1].kind = "summary"
                 /\ calls[c].msgs[1].applied = calls[c].appliedCount
                 /\ calls[c].msgs[1].failed = calls[c].failedCount
                 /\ calls[c].msgs[1].skipped = calls[c].skippedCount)
    /\ \A c \in Slots : BatchLooping(c) ~> BatchDone(c)

C11_Witness ==
    \E c \in Slots :
        /\ BatchDone(c)
        /\ calls[c].outcome = <<"failed", "notFound">>
        /\ calls[c].appliedCount = 0
        /\ Len(calls[c].msgs) = 1

\* C12 (one outstanding host edit): at no time are two editor.edit requests
\* on the document outstanding, whichever handlers started the calls.
C12_OneOutstandingEdit ==
    Cardinality({c \in Slots : calls[c].pc = "edit"}) <= 1

\* the offsets the host gives to the range a call has built
RequestedStart(c) == OffsetAt(doc, calls[c].range[1])
RequestedEnd(c) == OffsetAt(doc, calls[c].range[2])

\* the call has resolved its current proposal by anchor and the document has
\* not changed since
ResolvedByAnchor(c) ==
    \/ calls[c].kind = "batch" /\ calls[c].pc = "edit" /\ ~calls[c].stale
    \/ /\ calls[c].kind = "single" /\ calls[c].path = "found"
       /\ calls[c].pc \in {"confirm", "edit"} /\ ~calls[c].stale

\* C13 (first match): a proposal with a non-empty anchor that occurs in the
\* document is resolved, by the batch and by the single applier, to the span
\* that starts at the smallest offset at which the anchor occurs and is as
\* long as the anchor.
C13_FirstMatch ==
    \A c \in Slots :
        LET a == calls[c].fixes[calls[c].idx].originalCode
        IN  (ResolvedByAnchor(c) /\ a # <<>>) =>
              /\ OccursAt(doc, a, RequestedStart(c))
              /\ \A j \in 0..(RequestedStart(c) - 1) : ~OccursAt(doc, a, j)
              /\ RequestedEnd(c) = RequestedStart(c) + Len(a)

C13_Witness ==
    \E c \in Slots :
        /\ ResolvedByAnchor(c)
        /\ calls[c].kind = "single"
        /\ Cardinality(Occurrences(doc, calls[c].fixes[1].originalCode)) = 2
        /\ calls[c].range[1][1] = 1

\* C17 (re-resolution): when a batch requests a host replace, the text of the
\* current document inside the requested span is the proposal's anchor text,
\* also after earlier edits of the batch have moved it.
C17_SpanHoldsAnchor ==
    \A c \in Batches :
        (calls[c].pc = "edit" /\ ~calls[c].stale) =>
            /\ RequestedStart(c) = calls[c].startOffset
            /\ RequestedEnd(c) = calls[c].endOffset
            /\ SubSeq(doc, RequestedStart(c) + 1, RequestedEnd(c))
                 = calls[c].fixes[calls[c].idx].originalCode

C17_Witness ==
    \E c \in Batches :
        /\ calls[c].pc = "edit"
        /\ calls[c].outcome = <<"applied">>
        /\ calls[c].fixes[2].originalCode # <<>>
        /\ Occurrences(calls[c].doc0, calls[c].fixes[2].originalCode) # {}
        /\ calls[c].startOffset # IndexOf(calls[c].doc0, calls[c].fixes[2].originalCode)

\* C15 (single apply surfaces failures): when the host rejects the edit of
\* applySingleFix the user is told so, and the 'Fix applied' message is shown
\* only when the edit succeeded.
C15_SingleSurfacesFailure ==
    \A c \in Singles :
        (/\ calls[c].pc = "done" /\ calls[c].outcome = <<"failed">>
         /\ calls[c].fixes[1].originalCode # <<>>) =>
            /\ calls[c].msgs # <<>>
            /\ \A m \in DOMAIN calls[c].msgs : calls[c].msgs[m].kind # "fixApplied"

\* the half-open spans [s, e) and [a, b) share at least one offset
HalfOpenIntersect(s, e, a, b) == \E x \in s..(e - 1) : a <= x /\ x < b

\* C16 (overlap test): for the span [s, e) a batch resolves and every span
\* [a, b) it has committed, the overlap test of the loop reports overlap
\* exactly when the two half-open spans share an offset; touching spans and
\* spans of length zero are not reported.
C16_HalfOpenOverlap ==
    \A c \in Batches :
        LET k == calls[c]
        IN  \A i \in 1..Len(k.texts) :
              IndexOf(k.texts[i], k.fixes[i].originalCode) # -1 =>
                LET s == IndexOf(k.texts[i], k.fixes[i].originalCode)
                    e == s + Len(k.fixes[i].originalCode)
                IN  \A n \in 1..Len(k.trackers[i]) :
                        RangeOverlaps(s, e, k.trackers[i][n])
                          <=> HalfOpenIntersect(s, e, k.trackers[i][n].start,
                                                k.trackers[i][n].end)

\* the proposals of the call that were applied, in the order of application
AppliedIdx(k) ==
    SelectSeq([n \in 1..Len(k.outcome) |-> n], LAMBDA n : k.outcome[n] = "applied")

\* where the characters of the current text come from after the first j
\* applied edits of the batch: the index in the text the batch started on, or
\* 0 for a character written by an edit
RECURSIVE SourceAfter(_, _)
SourceAfter(k, j) ==
    IF j = 0 THEN [i \in 1..Len(k.doc0) |-> i]
    ELSE ReplaceRange(SourceAfter(k, j - 1),
                      k.modifiedRanges[j].start, k.modifiedRanges[j].end,
                      [x \in 1..Len(k.fixes[AppliedIdx(k)[j]].fixedCode) |-> 0])

\* the span [s, e) of the text after the first j applied edits is a piece of
\* the text the batch started on that no applied edit has written to or cut
Untouched(k, j, s, e) ==
    LET src == SourceAfter(k, j)
    IN  /\ s < e
        /\ \A i \in (s + 1)..e : src[i] > 0
        /\ \A i \in (s + 1)..(e - 1) : src[i + 1] = src[i] + 1

\* C18 (no false skips): a proposal is skipped as overlapping only when the
\* span its anchor resolves to intersects text changed by an edit applied
\* earlier in the batch; a span of untouched text is never skipped.  The case
\* is taken with anchors that are non-empty and whose spans in the text the
\* batch started on are disjoint.
C18_SkipOnlyRealOverlap ==
    \A c \in Batches :
        LET k == calls[c]
        IN  \A i \in 1..Len(k.outcome) :
              (/\ \A n \in 1..Len(k.fixes) : k.fixes[n].originalCode # <<>>
               /\ \A n \in 1..(i - 1) :
                      ~AnchorSpansIntersect(k.doc0, k.fixes[n], k.fixes[i])
               /\ k.outcome[i] = "skipped") =>
                ~Untouched(k, Len(k.trackers[i]),
                           IndexOf(k.texts[i], k.fixes[i].originalCode),
                           IndexOf(k.texts[i], k.fixes[i].originalCode)
                             + Len(k.fixes[i].originalCode))

\* C19 (commit on success only): the batch has committed as many spans as it
\* has counted applied, one for every proposal the host accepted and none for
\* a proposal the host rejected, which is counted failed; without an applied
\* proposal nothing is skipped.
C19_CommitOnSuccess ==
    \A c \in Batches :
        LET k == calls[c]
        IN  k.pc \in {"loop", "edit", "done"} =>
              /\ Len(k.modifiedRanges) = k.appliedCount
              /\ k.appliedCount = Cardinality(Ended(k, "applied"))
              /\ k.failedCount = Cardinality(Ended(k, "failed"))
                                   + Cardinality(Ended(k, "threw"))
                                   + Cardinality(Ended(k, "notFound"))
              /\ Ended(k, "applied") = {} => k.skippedCount = 0

C19_Witness ==
    \E c \in Batches :
        /\ calls[c].pc = "done"
        /\ calls[c].outcome = <<"failed", "applied">>
        /\ calls[c].fixes[1].originalCode = calls[c].fixes[2].originalCode
        /\ calls[c].fixes[1].originalCode # <<>>
        /\ Len(calls[c].modifiedRanges) = 1

\* the text of the document after the proposal n of batch k was processed:
\* the text the next iteration read, or the text at the summary
TextAfter(k, n) == IF n < Len(k.texts) THEN k.texts[n + 1] ELSE k.docEnd

\* C20 (failures leave the document alone): after a proposal of a batch has
\* ended as not found, skipped or failed (rejected or raised), the document
\* has the text it had when the proposal was taken up; after an applied
\* proposal it has that text with the anchor replaced; and the document is
\* the text of the last iteration while the batch waits for an edit and at
\* its summary, so no later failure undoes an applied edit.
C20_FailureLeavesDoc ==
    \A c \in Batches :
        LET k == calls[c]
        IN  /\ \A n \in 1..Len(k.outcome) :
                 LET fix == k.fixes[n]
                     at == IndexOf(k.texts[n], fix.originalCode)
                 IN  IF k.outcome[n] = "applied"
                     THEN TextAfter(k, n) =
                              ReplaceRange(k.texts[n], at,
                                           at + Len(fix.originalCode),
                                           fix.fixedCode)
                     ELSE TextAfter(k, n) = k.texts[n]
            /\ k.pc = "edit" => doc = k.texts[Len(k.texts)]
            /\ BatchDone(c) => doc = k.docEnd

C20_Witness ==
    \E c \in Batches :
        /\ BatchDone(c)
        /\ calls[c].outcome = <<"applied", "skipped">>
        /\ calls[c].texts[2] # calls[c].doc0
        /\ doc = calls[c].texts[2]

\* C14 (safe defaults): a proposal of the service with missing or wrongly
\* typed fields does not abort the review; every proposal handed to the menu
\* has strings as anchor and replacement text, the empty string where the
\* field was missing or of another type, line 1 for a missing line number,
\* 'info' for a missing severity and 'style' for a missing category.
C14_SafeDefaults ==
    /\ menu \notin {"error: property of null", "error: not a function"}
    /\ menu \in {"processing", "open"} =>
         \A n \in 1..Len(fixes) :
            /\ fixes[n].originalCode.t = "string"
            /\ fixes[n].fixedCode.t = "string"
            /\ fixes[n].raw.originalCode.t # "string" => fixes[n].originalCode.v = ""
            /\ fixes[n].raw.fixedCode.t # "string" => fixes[n].fixedCode.v = ""
            /\ fixes[n].raw.lineStart = JsUndefined => fixes[n].lineStart = JsNumber("1")
            /\ fixes[n].raw.severity = JsUndefined => fixes[n].severity = JsString("info")
            /\ fixes[n].raw.type = JsUndefined => fixes[n].type = JsString("style")

\* C21 (private tracker): the spans a batch has recorded are those of its own
\* applied proposals, none when it has applied nothing; a batch skips a
\* proposal only after it has applied one itself, whatever other batches have
\* committed before it or beside it.
C21_TrackerPrivate ==
    \A c \in Batches :
        LET k == calls[c]
        IN  k.pc \in {"loop", "edit", "done"} =>
              /\ Len(k.modifiedRanges) = Len(AppliedIdx(k))
              /\ AppliedIdx(k) = <<>> => k.modifiedRanges = <<>>
              /\ \A n \in Ended(k, "skipped") :
                     \E m \in Ended(k, "applied") : m < n

C21_Witness ==
    \E c, o \in Batches :
        /\ c # o
        /\ calls[o].appliedCount = 1
        /\ calls[o].fixes[1].originalCode # <<>>
        /\ calls[c].pc = "done" /\ calls[c].result = "summary"
        /\ calls[c].doc0 # calls[o].doc0
        /\ calls[c].outcome = <<"applied">>
        /\ calls[c].modifiedRanges = calls[o].modifiedRanges

\* C22 (ordering policy): a batch works on the caller's proposals in
\* non-increasing order of lineStart, proposals with equal lineStart in their
\* input order, and requests its host edits in that order: the proposal an
\* edit is requested for comes after all those already ended.
C22_DescendingOrder ==
    \A c \in Batches :
        LET k == calls[c]
        IN  k.pc \in {"loop", "edit"} =>
              /\ Len(k.fixes) = Len(fixes)
              /\ \A n \in 1..Len(fixes) : \E m \in 1..Len(k.fixes) : k.fixes[m] = fixes[n]
              /\ \A n, m \in 1..Len(k.fixes) :
                     n < m => \/ k.fixes[n].lineStart > k.fixes[m].lineStart
                              \/ /\ k.fixes[n].lineStart = k.fixes[m].lineStart
                                 /\ k.fixes[n].id < k.fixes[m].id
              /\ k.pc = "edit" => Len(k.outcome) = k.idx - 1

C22_Witness ==
    \E c \in Batches :
        /\ calls[c].pc = "edit" /\ calls[c].idx = 2
        /\ fixes[1].lineStart < fixes[2].lineStart
        /\ calls[c].fixes = <<fixes[2], fixes[1]>>
        /\ calls[c].outcome = <<"applied">>

\* C23 (no retry): a batch has requested one host edit for each of its
\* proposals that ended applied or failed, one more while a request is
\* outstanding, and none for the others; every proposal ends once, and a
\* rejected one is counted failed once.
C23_NoRetry ==
    \A c \in Batches :
        LET k == calls[c]
        IN  k.pc \in {"loop", "edit", "done"} =>
              /\ k.edits = Cardinality(Ended(k, "applied"))
                             + Cardinality(Ended(k, "failed"))
                             + Cardinality(Ended(k, "threw"))
                             + (IF k.pc = "edit" THEN 1 ELSE 0)
              /\ Len(k.outcome) <= Len(k.fixes)
              /\ k.pc # "done" => k.idx = Len(k.outcome) + 1
              /\ k.failedCount <= Len(k.outcome)

C23_Witness ==
    \E c \in Batches :
        /\ calls[c].pc = "done"
        /\ calls[c].outcome = <<"failed">>
        /\ calls[c].edits = 1 /\ calls[c].failedCount = 1
        /\ calls[c].fixes[1].originalCode # <<>>
        /\ Occurrences(doc, calls[c].fixes[1].originalCode) # {}

\* offset at which the 1-indexed line l of text starts; the end of the text
\* for the line after the last one
StartOfLine(text, l) ==
    IF l <= LineCount(text) THEN LineStartOffset(text, l - 1) ELSE Len(text)

\* the applySingleFix call in slot c took the line fallback and its edit was
\* applied
FallbackApplied(c) ==
    /\ calls[c].kind = "single" /\ calls[c].path = "fallback"
    /\ calls[c].pc = "done" /\ calls[c].outcome = <<"applied">>

\* C24 (line fallback span): after a confirmed line fallback with
\* 1 <= lineStart <= lineEnd <= lineCount the document is the old text up to
\* the start of line lineStart, the replacement and a line terminator, and the
\* old text from the start of line lineEnd + 1 on.
C24_FallbackWholeLines ==
    \A c \in Slots :
        LET k == calls[c]
            f == k.fixes[1]
        IN  (/\ FallbackApplied(c)
             /\ 1 <= f.lineStart /\ f.lineStart <= f.lineEnd
             /\ f.lineEnd <= LineCount(k.doc0)) =>
              doc = SubSeq(k.doc0, 1, StartOfLine(k.doc0, f.lineStart))
                      \o f.fixedCode \o <<NL>>
                      \o SubSeq(k.doc0, StartOfLine(k.doc0, f.lineEnd + 1) + 1,
                                Len(k.doc0))

C24_Witness ==
    \E c \in Slots :
        /\ FallbackApplied(c)
        /\ LineCount(calls[c].doc0) = 3
        /\ calls[c].fixes[1].lineStart = 2 /\ calls[c].fixes[1].lineEnd = 2
        /\ calls[c].doc0[1] = "a"
        /\ doc[1] = "a" /\ doc[Len(doc)] = NL

\* C25 (advisory lines are clamped): whatever lineStart and lineEnd are, the
\* line fallback of applySingleFix does not raise and resolves to a span
\* inside the document.
C25_LinesClamped ==
    \A c \in Singles :
        calls[c].path = "fallback" =>
            /\ ~(calls[c].result = "threw" /\ calls[c].edits = 0)
            /\ calls[c].pc \in {"confirm", "edit"} =>
                 /\ 0 <= RequestedStart(c)
                 /\ RequestedStart(c) <= RequestedEnd(c)
                 /\ RequestedEnd(c) <= Len(doc)

\* C26 (read-only proposals): no step changes the caller's proposal array or
\* the proposals a running call works on, and a step of a batch that only
\* resolves a proposal (it ends not found or skipped, or goes on to request
\* the edit) changes neither the document nor the recorded spans.
C26_ReadOnly ==
    [][/\ fixes' = fixes
       /\ \A c \in Slots :
            /\ (calls[c].fixes # <<>> /\ calls'[c].kind = calls[c].kind)
                 => calls'[c].fixes = calls[c].fixes
            /\ (calls'[c].kind # "none" /\ calls'[c].fixes # <<>>)
                 => \A n \in 1..Len(calls'[c].fixes) :
                        \E m \in 1..Len(fixes) : calls'[c].fixes[n] = fixes[m]
            /\ calls'[c].kind = "batch" =>
                 LET k == calls'[c]
                 IN  /\ \A n \in 1..Len(k.outcome) :
                            (k.outcome[n] \in {"notFound", "skipped"}
                             /\ n < Len(k.texts)) =>
                                /\ k.texts[n + 1] = k.texts[n]
                                /\ k.trackers[n + 1] = k.trackers[n]
                     /\ (k.pc = "edit" /\ k.edits # calls[c].edits) =>
                            /\ doc' = k.texts[Len(k.texts)]
                            /\ k.modifiedRanges = k.trackers[Len(k.trackers)]]_vars

C26_Witness ==
    \E c \in Batches :
        /\ calls[c].pc = "done" /\ calls[c].result = "summary"
        /\ calls[c].fixes # fixes
        /\ calls[c].outcome = <<"applied", "skipped">>
        /\ fixes[1].lineStart < fixes[2].lineStart

\* C27 (unique ids): the proposals analyzeAndGetFixes returns have pairwise
\* distinct ids, also when the service omits or repeats ids.
C27_UniqueIds ==
    menu \in {"processing", "open"} =>
        \A n, m \in 1..Len(fixes) : n # m => fixes[n].id # fixes[m].id

\* C28 (outcome accounting): when a confirmed batch has ended, every proposal
\* passed in has ended in exactly one way and is counted in exactly one of the
\* three counters, so the counters add up to the number of proposals, and
\* appliedCount is the number of host edits that succeeded.
C28_CountersAddUp ==
    \A c \in Slots :
        LET k == calls[c]
        IN  BatchDone(c) =>
              /\ Len(k.outcome) = Len(fixes)
              /\ k.appliedCount + k.failedCount + k.skippedCount = Len(fixes)
              /\ k.appliedCount = Cardinality(Ended(k, "applied"))
              /\ k.skippedCount = Cardinality(Ended(k, "skipped"))
              /\ k.failedCount = Len(fixes) - Cardinality(Ended(k, "applied"))
                                            - Cardinality(Ended(k, "skipped"))
              /\ k.edits - Cardinality(Ended(k, "failed"))
                         - Cardinality(Ended(k, "threw")) = k.appliedCount

C28_Witness ==
    \E c \in Slots :
        /\ BatchDone(c)
        /\ calls[c].outcome = <<"applied", "notFound">>
        /\ calls[c].appliedCount = 1 /\ calls[c].failedCount = 1
        /\ calls[c].skippedCount = 0

\* C29 (debounce): at most one review timer is pending; after a change event
\* that came while real-time review was enabled, and until a timer callback
\* runs, the one pending timer is the one the variable holds and it is for
\* that event's document; a callback that runs after such an event reviews
\* that document; a timer is set only while real-time review is enabled.
C29_Debounce ==
    /\ Cardinality(realTime.timeouts) <= 1
    /\ (realTime.lastChange.enabled /\ ~realTime.fired) =>
          realTime.timeouts = {[id |-> realTime.realTimeReviewTimer,
                                document |-> realTime.lastChange.document]}
    /\ (realTime.lastChange.enabled /\ realTime.fired) =>
          /\ realTime.reviews # <<>>
          /\ realTime.reviews[Len(realTime.reviews)] = realTime.lastChange.document

\* C30 (reviewPanel is consistent): reviewPanel is null or a panel that is not
\* disposed, and it is not null while a review panel that createReviewWebview
\* has finished setting up is open.
C30_ReviewPanelConsistent ==
    /\ webviews.reviewPanel = 0 \/ webviews.reviewPanel \in webviews.open
    /\ (webviews.open \cap webviews.handled) # {} => webviews.reviewPanel # 0

\* C31 (unparsable reply, failed call): on a reply that is not JSON
\* analyzeAndGetFixes returns the empty proposal list and the review goes on
\* without an error; when the chat call fails the caller shows the error, and
\* then no applier call has been started and nothing is left to run.
C31_ParseAbsorbedCallRethrown ==
    [][/\ (menu = "analyzing" /\ fixes.kind = "invalid")
            => (menu' = "processing" /\ fixes' = <<>>)
       /\ (menu = "analyzing" /\ fixes.kind = "failed")
            => /\ menu' = "error: request"
               /\ doc' = doc
               /\ ncalls' = 0
               /\ \A c \in Slots : calls'[c] = IdleCall
       /\ (menu = "processing" /\ fixes = <<>>) => menu' = "no issues"]_vars

C31_Witness ==
    /\ menu = "error: request"
    /\ fixes.kind = "failed"
    /\ ncalls = 0

\* C32 (apply replaces the whole document): when the 'apply' message of
\* addFeature has been handled and the host applied the edit, the document is
\* the generated code, also when the document was edited after the code was
\* generated.
C32_ApplyReplacesDocument ==
    \A c \in Slots :
        (calls[c].kind = "feature" /\ calls[c].pc = "done"
         /\ calls[c].result = "applied") =>
            calls[c].docEnd = calls[c].text

\* C33 (the newest review wins): when several real-time reviews of the
\* document were in flight together and all have completed, the diagnostics
\* stored for the document are those of the review that was started last,
\* provided that review stored any.
C33_NewestReviewWins ==
    \A d \in Documents :
        (/\ realTime.overlapped[d]
         /\ \A r \in realTime.inflight : r.document # d
         /\ realTime.lastChat[d] \in realTime.produced) =>
            realTime.diagnostics[d].review = realTime.lastChat[d]

====
